---- MODULE Spec2Model ----
(***************************************************************************)
(* Flow-map core of the Dataiku MCP server: normalizeFlowGraph             *)
(* (src/tools/flow-map.ts) and truncateFlowMap / computeRootsAndLeaves     *)
(* (src/tools/projects.ts, lines 1169-1534 of                              *)
(* tests/unit/register-tool.test.ts), as used by the project "map" action. *)
(*                                                                         *)
(* A JavaScript string is a tuple of one-character strings, so that        *)
(* concatenation, substring search, upper-casing and collation are         *)
(* computed.  A JavaScript value of unknown shape is a record tagged by    *)
(* its runtime type in field t.                                            *)
(***************************************************************************)
EXTENDS Integers, Sequences, FiniteSets, TLC

(* ------------------------------------------------------------------ *)
(* JavaScript values                                                  *)
(* ------------------------------------------------------------------ *)
Undefined == [t |-> "undefined"]
Null == [t |-> "null"]
Num == [t |-> "number"]
Bool == [t |-> "boolean"]
Str(s) == [t |-> "string", s |-> s]
Arr(items) == [t |-> "array", items |-> items]
\* A raw node object: its own properties are the record's fields.
NodeObj(type, ref, idf, subType, subtype, name, label, connection, params, preds, succs) ==
    [t |-> "object", type |-> type, ref |-> ref, id |-> idf, subType |-> subType,
     subtype |-> subtype, name |-> name, label |-> label, connection |-> connection,
     params |-> params, predecessors |-> preds, successors |-> succs]
\* The object under raw.nodes: Object.entries order is the order of `entries`.
NodesObj(entries) == [t |-> "object", entries |-> entries]
\* The raw graph document.
RootObj(nodes, datasets, recipes, folders) ==
    [t |-> "object", nodes |-> nodes, datasets |-> datasets, recipes |-> recipes,
     folders |-> folders]
ParamsObj(connection) == [t |-> "object", connection |-> connection]

\* value[name] for a value that is not null or undefined: an own property or
\* undefined.
Prop(value, name) == IF name \in DOMAIN value THEN value[name] ELSE Undefined

\* a ?? b
Coalesce(a, b) == IF a = Undefined \/ a = Null THEN b ELSE a

(* ------------------------------------------------------------------ *)
(* Strings                                                            *)
(* ------------------------------------------------------------------ *)
LowerChars == <<"a","b","c","d","e","f","g","h","i","j","k","l","m",
                "n","o","p","q","r","s","t","u","v","w","x","y","z">>
UpperChars == <<"A","B","C","D","E","F","G","H","I","J","K","L","M",
                "N","O","P","Q","R","S","T","U","V","W","X","Y","Z">>

toUpperCase(s) ==
    [i \in 1..Len(s) |->
        IF \E j \in 1..Len(LowerChars) : LowerChars[j] = s[i]
        THEN UpperChars[CHOOSE j \in 1..Len(LowerChars) : LowerChars[j] = s[i]]
        ELSE s[i]]

includes(s, sub) ==
    \E i \in 0..(Len(s) - Len(sub)) : SubSeq(s, i + 1, i + Len(sub)) = sub

\* Collation of the characters that occur in identifiers: punctuation, then
\* digits, then letters.  AngstromSign (U+212B) and AWithRing (U+00C5) are
\* canonically equivalent and collate equal.
AngstromSign == "U+212B"
AWithRing == "U+00C5"
CollationOrder == <<":", "_", "1", "2", "3", "a", "b", "c", "d", "e", "r", "z">>

CollationWeight(c) ==
    IF c \in {AngstromSign, AWithRing} THEN Len(CollationOrder) + 1
    ELSE CHOOSE j \in 1..Len(CollationOrder) : CollationOrder[j] = c

\* String.prototype.localeCompare: negative, zero or positive.
RECURSIVE localeCompare(_, _)
localeCompare(a, b) ==
    IF Len(a) = 0 /\ Len(b) = 0 THEN 0
    ELSE IF Len(a) = 0 THEN -1
    ELSE IF Len(b) = 0 THEN 1
    ELSE IF CollationWeight(Head(a)) < CollationWeight(Head(b)) THEN -1
    ELSE IF CollationWeight(Head(a)) > CollationWeight(Head(b)) THEN 1
    ELSE localeCompare(Tail(a), Tail(b))

\* Comparison of the relation names (plain ASCII words).
RelationOrder == <<"depends_on", "reads", "unknown", "writes">>
relationCompare(a, b) ==
    LET ia == CHOOSE j \in 1..Len(RelationOrder) : RelationOrder[j] = a
        ib == CHOOSE j \in 1..Len(RelationOrder) : RelationOrder[j] = b
    IN  IF ia < ib THEN -1 ELSE IF ia > ib THEN 1 ELSE 0

(* ------------------------------------------------------------------ *)
(* Guard utilities                                                    *)
(* ------------------------------------------------------------------ *)
\* asRecord without the Array.isArray test.
asRecordTypeofOnly(value) == IF value.t \in {"object", "array"} THEN value ELSE Undefined

asRecord(value) == IF value.t = "object" THEN value ELSE Undefined

asString(value) ==
    IF value.t = "string" /\ Len(value.s) > 0 THEN value ELSE Undefined

\* A warning: the message template and the values interpolated into it.
Warning(template, scope, key, field, counts) ==
    [template |-> template, scope |-> scope, key |-> key, field |-> field,
     counts |-> counts]
\* `nodes.${nodeKey}.${field}` or a top-level field name.
NodeContext(nodeKey, field) == [scope |-> "nodes", key |-> nodeKey, field |-> field]
RootContext(field) == [scope |-> "", key |-> <<>>, field |-> field]

NotAnObjectWarning ==
    Warning("Flow graph response was not an object.", "", <<>>, "", <<>>)
NonArrayWarning(ctx) ==
    Warning("Skipped non-array \"{context}\" field.", ctx.scope, ctx.key, ctx.field, <<>>)
NonStringItemWarning(ctx) ==
    Warning("Skipped non-string item in \"{context}\".", ctx.scope, ctx.key, ctx.field, <<>>)
NodesNotObjectWarning ==
    Warning("Skipped \"nodes\" because it was not an object.", "", <<>>, "nodes", <<>>)
NodeNotObjectWarning(nodeKey) ==
    Warning("Skipped node \"{nodeKey}\" because it was not an object.", "nodes", nodeKey, "", <<>>)
PlaceholderWarning(id) ==
    Warning("Added placeholder node for \"{id}\" referenced by an edge.", "", id, "", <<>>)
TruncatedWarning(nodesAfter, nodesBefore, edgesAfter, edgesBefore) ==
    Warning("Flow map truncated (nodes {a}/{b}, edges {c}/{d}).", "", <<>>, "",
            <<nodesAfter, nodesBefore, edgesAfter, edgesBefore>>)

RECURSIVE asStringArrayItems(_, _, _, _)
asStringArrayItems(items, out, warnings, ctx) ==
    IF Len(items) = 0 THEN [out |-> out, warnings |-> warnings]
    ELSE LET item == Head(items) IN
         IF item.t = "string" /\ Len(item.s) > 0
         THEN asStringArrayItems(Tail(items), Append(out, item.s), warnings, ctx)
         ELSE asStringArrayItems(Tail(items), out,
                                 Append(warnings, NonStringItemWarning(ctx)), ctx)

\* asStringArray without the early return for undefined.
asStringArrayWarnsOnUndefined(value, warnings, ctx) ==
    IF value.t # "array"
    THEN [out |-> <<>>, warnings |-> Append(warnings, NonArrayWarning(ctx))]
    ELSE asStringArrayItems(value.items, <<>>, warnings, ctx)

\* asStringArray that skips a non-array without a warning.
asStringArraySilent(value, warnings, ctx) ==
    IF value = Undefined \/ value.t # "array" THEN [out |-> <<>>, warnings |-> warnings]
    ELSE asStringArrayItems(value.items, <<>>, warnings, ctx)

\* Returns the list and the warnings list after the pushes.
asStringArray(value, warnings, ctx) ==
    IF value = Undefined THEN [out |-> <<>>, warnings |-> warnings]
    ELSE IF value.t # "array"
    THEN [out |-> <<>>, warnings |-> Append(warnings, NonArrayWarning(ctx))]
    ELSE asStringArrayItems(value.items, <<>>, warnings, ctx)

(* ------------------------------------------------------------------ *)
(* Kind and relation inference                                        *)
(* ------------------------------------------------------------------ *)
RECIPE == <<"R","E","C","I","P","E">>
DATASET == <<"D","A","T","A","S","E","T">>
FOLDER == <<"F","O","L","D","E","R">>
IMPLICIT_RECIPE == <<"I","M","P","L","I","C","I","T","_">> \o RECIPE

\* type: string | undefined (the result of asString)
inferKind(type) ==
    IF type = Undefined THEN "other"
    ELSE LET upper == toUpperCase(type.s) IN
         IF includes(upper, RECIPE) THEN "recipe"
         ELSE IF includes(upper, DATASET) THEN "dataset"
         ELSE IF includes(upper, FOLDER) THEN "folder"
         ELSE "other"

\* inferSubtypeFromType without the upper-casing.
inferSubtypeFromTypeCaseSensitive(type) ==
    IF type = Undefined THEN Undefined
    ELSE IF includes(type.s, IMPLICIT_RECIPE)
    THEN Str(<<"i","m","p","l","i","c","i","t">>)
    ELSE Undefined

inferSubtypeFromType(type) ==
    IF type = Undefined THEN Undefined
    ELSE IF includes(toUpperCase(type.s), IMPLICIT_RECIPE)
    THEN Str(<<"i","m","p","l","i","c","i","t">>)
    ELSE Undefined

relationRank(relation) ==
    IF relation \in {"reads", "writes"} THEN 3
    ELSE IF relation = "depends_on" THEN 2
    ELSE 1

\* inferRelation that does not treat folders like datasets.
inferRelationWithoutFolders(fromKind, toKind) ==
    IF fromKind = "dataset" /\ toKind = "recipe" THEN "reads"
    ELSE IF fromKind = "recipe" /\ toKind = "dataset" THEN "writes"
    ELSE IF fromKind = "other" \/ toKind = "other" THEN "unknown"
    ELSE "depends_on"

inferRelation(fromKind, toKind) ==
    IF fromKind \in {"dataset", "folder"} /\ toKind = "recipe" THEN "reads"
    ELSE IF fromKind = "recipe" /\ toKind \in {"dataset", "folder"} THEN "writes"
    ELSE IF fromKind = "other" \/ toKind = "other" THEN "unknown"
    ELSE "depends_on"

\* preferredKind letting a later non-"other" kind replace the current one.
preferredKindIncoming(current, incoming) ==
    IF incoming = "other" THEN current ELSE incoming

preferredKind(current, incoming) ==
    IF current = incoming THEN current
    ELSE IF current = "other" THEN incoming
    ELSE current

getConnection(record) ==
    LET direct == asString(record.connection) IN
    IF direct # Undefined THEN direct
    ELSE LET params == asRecord(record.params) IN
         IF params = Undefined THEN Undefined ELSE asString(params.connection)

(* ------------------------------------------------------------------ *)
(* Graph builder: the working maps of one call                        *)
(*   nodeMap  : Map<string, InternalNode>, a sequence in insertion    *)
(*              order with one element per key                        *)
(*   aliasMap : Map<string, string>, a function on the aliases set    *)
(*   edgeMap  : Map<string, NormalizedFlowEdge>, a sequence of        *)
(*              [key, from, to, relation] in insertion order          *)
(*   warnings : string[]                                              *)
(* ------------------------------------------------------------------ *)
EmptyAliasMap == [a \in {} |-> <<>>]

HasNode(nodeMap, id) == \E i \in 1..Len(nodeMap) : nodeMap[i].id = id
NodeIndex(nodeMap, id) == CHOOSE i \in 1..Len(nodeMap) : nodeMap[i].id = id
GetNode(nodeMap, id) == nodeMap[NodeIndex(nodeMap, id)]

\* An empty string is falsy, like undefined.
Truthy(v) == v # Undefined /\ (v.t = "string" => Len(v.s) > 0)

InternalNode(id, kind, name, subtype, connection) ==
    [id |-> id, kind |-> kind, name |-> name, subtype |-> subtype,
     connection |-> connection, predecessors |-> <<>>, successors |-> <<>>]

RECURSIVE mergeUniqueInto(_, _)
mergeUniqueInto(out, list) ==
    IF Len(list) = 0 THEN out
    ELSE LET item == Head(list) IN
         IF Len(item) > 0 /\ ~(\E i \in 1..Len(out) : out[i] = item)
         THEN mergeUniqueInto(Append(out, item), Tail(list))
         ELSE mergeUniqueInto(out, Tail(list))

\* mergeUnique that leaves out the second list.
mergeUniqueFirstOnly(first, second) == mergeUniqueInto(<<>>, first)

\* mergeUnique(first, second): second is string[] | undefined.
mergeUnique(first, second) ==
    LET afterFirst == mergeUniqueInto(<<>>, first) IN
    IF second = Undefined THEN afterFirst
    ELSE mergeUniqueInto(afterFirst, second.items)

\* upsertNode without the lookup of the existing node.
upsertNodeAlwaysInserts(nodeMap, node) ==
    Append(nodeMap,
           InternalNode(node.id, node.kind, node.name, node.subtype, node.connection))

\* node: [id, kind, name, subtype, connection]
upsertNode(nodeMap, node) ==
    IF ~HasNode(nodeMap, node.id)
    THEN Append(nodeMap,
                InternalNode(node.id, node.kind, node.name, node.subtype, node.connection))
    ELSE LET i == NodeIndex(nodeMap, node.id)
             existing == nodeMap[i]
             merged ==
                [existing EXCEPT
                    !.kind = preferredKind(existing.kind, node.kind),
                    !.name = IF ~Truthy(existing.name) /\ Truthy(node.name)
                             THEN node.name ELSE existing.name,
                    !.subtype = IF ~Truthy(existing.subtype) /\ Truthy(node.subtype)
                                THEN node.subtype ELSE existing.subtype,
                    !.connection = IF ~Truthy(existing.connection) /\ Truthy(node.connection)
                                   THEN node.connection ELSE existing.connection]
         IN  [nodeMap EXCEPT ![i] = merged]

\* ensureNode without nodeMap.set: the placeholder is returned but not stored.
ensureNodeWithoutSet(b, id) ==
    IF HasNode(b.nodeMap, id) THEN [b |-> b, node |-> GetNode(b.nodeMap, id)]
    ELSE [b |-> [b EXCEPT !.warnings = Append(@, PlaceholderWarning(id))],
          node |-> InternalNode(id, "other", Str(id), Undefined, Undefined)]

\* ensureNode pushing its warning on every call, also for a node that exists.
ensureNodeAlwaysWarns(b, id) ==
    IF HasNode(b.nodeMap, id)
    THEN [b |-> [b EXCEPT !.warnings = Append(@, PlaceholderWarning(id))],
          node |-> GetNode(b.nodeMap, id)]
    ELSE LET placeholder == InternalNode(id, "other", Str(id), Undefined, Undefined) IN
         [b |-> [b EXCEPT !.nodeMap = Append(@, placeholder),
                          !.warnings = Append(@, PlaceholderWarning(id))],
          node |-> placeholder]

\* b: [nodeMap, aliasMap, edgeMap, warnings]; returns the maps after the call
\* and the node returned.
ensureNode(b, id) ==
    IF HasNode(b.nodeMap, id) THEN [b |-> b, node |-> GetNode(b.nodeMap, id)]
    ELSE LET placeholder == InternalNode(id, "other", Str(id), Undefined, Undefined) IN
         [b |-> [b EXCEPT !.nodeMap = Append(@, placeholder),
                          !.warnings = Append(@, PlaceholderWarning(id))],
          node |-> placeholder]

\* alias: string | undefined
addAlias(aliasMap, alias, id) ==
    IF ~Truthy(alias) THEN aliasMap
    ELSE [a \in DOMAIN aliasMap \cup {alias.s} |->
            IF a = alias.s THEN id ELSE aliasMap[a]]

\* options.folderNamesById?.[id]
folderNameLookup(options, id) ==
    IF options.folderNamesById = Undefined THEN Undefined
    ELSE IF id \in DOMAIN options.folderNamesById.map
    THEN options.folderNamesById.map[id]
    ELSE Undefined

\* processRawNode adding the entry's adjacency lists to those the node
\* already holds.
processRawNodeUnion(b, nodeKey, nodeValue, options) ==
    LET nodeObj == asRecord(nodeValue) IN
    IF nodeObj = Undefined
    THEN [b EXCEPT !.warnings = Append(@, NodeNotObjectWarning(nodeKey))]
    ELSE
    LET ref == asString(nodeObj.ref)
        id == IF ref # Undefined THEN ref.s ELSE nodeKey
        kind == inferKind(asString(nodeObj.type))
        subtype == Coalesce(asString(nodeObj.subType),
                     Coalesce(asString(nodeObj.subtype),
                              inferSubtypeFromType(asString(nodeObj.type))))
        fallbackName == Coalesce(asString(nodeObj.name),
                          Coalesce(asString(nodeObj.label),
                                   Coalesce(ref, Str(nodeKey))))
        folderName == IF kind = "folder" THEN asString(folderNameLookup(options, id))
                      ELSE Undefined
        name == Coalesce(folderName, fallbackName)
        connection == getConnection(nodeObj)
        upserted == upsertNode(b.nodeMap,
                       [id |-> id, kind |-> kind, name |-> name, subtype |-> subtype,
                        connection |-> connection])
        aliased == addAlias(addAlias(addAlias(b.aliasMap, Str(nodeKey), id), ref, id),
                            asString(nodeObj.id), id)
        ensured == ensureNode([b EXCEPT !.nodeMap = upserted, !.aliasMap = aliased], id).b
        preds == asStringArray(nodeObj.predecessors, ensured.warnings,
                               NodeContext(nodeKey, "predecessors"))
        succs == asStringArray(nodeObj.successors, preds.warnings,
                               NodeContext(nodeKey, "successors"))
        i == NodeIndex(ensured.nodeMap, id)
    IN  [ensured EXCEPT
            !.nodeMap[i].predecessors = mergeUniqueInto(@, preds.out),
            !.nodeMap[i].successors = mergeUniqueInto(@, succs.out),
            !.warnings = succs.warnings]

\* One iteration of the loop over Object.entries(raw.nodes).
processRawNode(b, nodeKey, nodeValue, options) ==
    LET nodeObj == asRecord(nodeValue) IN
    IF nodeObj = Undefined
    THEN [b EXCEPT !.warnings = Append(@, NodeNotObjectWarning(nodeKey))]
    ELSE
    LET ref == asString(nodeObj.ref)
        id == IF ref # Undefined THEN ref.s ELSE nodeKey
        kind == inferKind(asString(nodeObj.type))
        subtype == Coalesce(asString(nodeObj.subType),
                     Coalesce(asString(nodeObj.subtype),
                              inferSubtypeFromType(asString(nodeObj.type))))
        fallbackName == Coalesce(asString(nodeObj.name),
                          Coalesce(asString(nodeObj.label),
                                   Coalesce(ref, Str(nodeKey))))
        folderName == IF kind = "folder" THEN asString(folderNameLookup(options, id))
                      ELSE Undefined
        name == Coalesce(folderName, fallbackName)
        connection == getConnection(nodeObj)
        upserted == upsertNode(b.nodeMap,
                       [id |-> id, kind |-> kind, name |-> name, subtype |-> subtype,
                        connection |-> connection])
        aliased == addAlias(addAlias(addAlias(b.aliasMap, Str(nodeKey), id), ref, id),
                            asString(nodeObj.id), id)
        ensured == ensureNode([b EXCEPT !.nodeMap = upserted, !.aliasMap = aliased], id).b
        preds == asStringArray(nodeObj.predecessors, ensured.warnings,
                               NodeContext(nodeKey, "predecessors"))
        succs == asStringArray(nodeObj.successors, preds.warnings,
                               NodeContext(nodeKey, "successors"))
        i == NodeIndex(ensured.nodeMap, id)
    IN  [ensured EXCEPT
            !.nodeMap[i].predecessors = preds.out,
            !.nodeMap[i].successors = succs.out,
            !.warnings = succs.warnings]

RECURSIVE processRawNodes(_, _, _)
processRawNodes(b, entries, options) ==
    IF Len(entries) = 0 THEN b
    ELSE processRawNodes(processRawNode(b, Head(entries).key, Head(entries).value, options),
                         Tail(entries), options)

\* The nodes pass without the warning for a "nodes" that is not an object.
nodesPassWithoutGuardWarning(b, root, options) ==
    LET rawNodes == Prop(root, "nodes")
    IN  IF asRecord(rawNodes) = Undefined THEN b
        ELSE processRawNodes(b, rawNodes.entries, options)

\* Lines 216-265: the "nodes" guard and the loop over its entries.
nodesPass(b, root, options) ==
    LET rawNodes == Prop(root, "nodes")
        warned == IF rawNodes # Undefined /\ asRecord(rawNodes) = Undefined
                  THEN [b EXCEPT !.warnings = Append(@, NodesNotObjectWarning)]
                  ELSE b
    IN  IF asRecord(rawNodes) = Undefined THEN warned
        ELSE processRawNodes(warned, rawNodes.entries, options)

RECURSIVE declareAll(_, _, _, _)
\* for (const item of list) { upsertNode({id: item, kind, name}); addAlias(item, item) }
declareAll(b, list, kind, options) ==
    IF Len(list) = 0 THEN b
    ELSE LET item == Head(list)
             name == IF kind = "folder"
                     THEN Coalesce(asString(folderNameLookup(options, item)), Str(item))
                     ELSE Str(item)
             next == [b EXCEPT
                        !.nodeMap = upsertNode(@, [id |-> item, kind |-> kind, name |-> name,
                                                   subtype |-> Undefined,
                                                   connection |-> Undefined]),
                        !.aliasMap = addAlias(@, Str(item), item)]
         IN  declareAll(next, Tail(list), kind, options)

\* One enumeration list merged with its option inventory (lines 267-274,
\* 276-283, 285-296).
enumerationPass(b, rawList, inventory, field, kind, options) ==
    LET coerced == asStringArray(rawList, b.warnings, RootContext(field))
        merged == mergeUnique(coerced.out, inventory)
    IN  declareAll([b EXCEPT !.warnings = coerced.warnings], merged, kind, options)

\* Lines 267-296.
enumerationsPass(b, root, options) ==
    LET d == enumerationPass(b, Prop(root, "datasets"), options.allDatasetNames, "datasets",
                             "dataset", options)
        r == enumerationPass(d, Prop(root, "recipes"), options.allRecipeNames, "recipes",
                             "recipe", options)
    IN  enumerationPass(r, Prop(root, "folders"), options.allFolderIds, "folders", "folder", options)

\* The rename pass overwriting whatever name a folder node has.
renameFoldersAlways(nodeMap, options) ==
    [i \in 1..Len(nodeMap) |->
        LET node == nodeMap[i]
            friendlyName == asString(folderNameLookup(options, node.id))
        IN  IF node.kind # "folder" THEN node
            ELSE IF friendlyName = Undefined THEN node
            ELSE [node EXCEPT !.name = friendlyName]]

\* Lines 298-304.
renameFolders(nodeMap, options) ==
    [i \in 1..Len(nodeMap) |->
        LET node == nodeMap[i]
            friendlyName == asString(folderNameLookup(options, node.id))
        IN  IF node.kind # "folder" THEN node
            ELSE IF friendlyName = Undefined THEN node
            ELSE IF ~Truthy(node.name) \/ node.name = Str(node.id)
            THEN [node EXCEPT !.name = friendlyName]
            ELSE node]

\* resolveAlias that does not consult the alias table.
resolveAliasUnresolved(aliasMap, ref) == ref

resolveAlias(aliasMap, ref) ==
    IF ref \in DOMAIN aliasMap THEN aliasMap[ref] ELSE ref

\* `${from}::${to}`
edgeKey(from, to) == from \o <<":", ":">> \o to

HasEdgeKey(edgeMap, key) == \E i \in 1..Len(edgeMap) : edgeMap[i].key = key
EdgeKeyIndex(edgeMap, key) == CHOOSE i \in 1..Len(edgeMap) : edgeMap[i].key = key

\* addEdge storing every candidate, whether or not its key is there.
addEdgeAppending(b, fromRef, toRef) ==
    LET from == resolveAlias(b.aliasMap, fromRef)
        to == resolveAlias(b.aliasMap, toRef)
        fromEnsured == ensureNode(b, from)
        toEnsured == ensureNode(fromEnsured.b, to)
        withNodes == toEnsured.b
        relation == inferRelation(fromEnsured.node.kind, toEnsured.node.kind)
        key == edgeKey(from, to)
        entry == [key |-> key, from |-> from, to |-> to, relation |-> relation]
    IN  [withNodes EXCEPT !.edgeMap = Append(@, entry)]

addEdge(b, fromRef, toRef) ==
    LET from == resolveAlias(b.aliasMap, fromRef)
        to == resolveAlias(b.aliasMap, toRef)
        fromEnsured == ensureNode(b, from)
        toEnsured == ensureNode(fromEnsured.b, to)
        withNodes == toEnsured.b
        relation == inferRelation(fromEnsured.node.kind, toEnsured.node.kind)
        key == edgeKey(from, to)
        entry == [key |-> key, from |-> from, to |-> to, relation |-> relation]
    IN  IF ~HasEdgeKey(withNodes.edgeMap, key)
        THEN [withNodes EXCEPT !.edgeMap = Append(@, entry)]
        ELSE LET i == EdgeKeyIndex(withNodes.edgeMap, key) IN
             IF relationRank(relation) > relationRank(withNodes.edgeMap[i].relation)
             THEN [withNodes EXCEPT !.edgeMap[i] = entry]
             ELSE withNodes

RECURSIVE addPredecessorEdges(_, _, _)
addPredecessorEdges(b, predecessors, id) ==
    IF Len(predecessors) = 0 THEN b
    ELSE addPredecessorEdges(addEdge(b, Head(predecessors), id), Tail(predecessors), id)

RECURSIVE addSuccessorEdges(_, _, _)
addSuccessorEdges(b, id, successors) ==
    IF Len(successors) = 0 THEN b
    ELSE addSuccessorEdges(addEdge(b, id, Head(successors)), id, Tail(successors))

RECURSIVE buildEdgesFrom(_, _)
\* for (const node of nodeMap.values()): the iterator also visits the
\* placeholders that addEdge appends while the loop runs.
buildEdgesFrom(b, i) ==
    IF i > Len(b.nodeMap) THEN b
    ELSE LET node == b.nodeMap[i]
             withPreds == addPredecessorEdges(b, node.predecessors, node.id)
             withSuccs == addSuccessorEdges(withPreds, node.id, node.successors)
         IN  buildEdgesFrom(withSuccs, i + 1)

\* Lines 310-332.
edgesPass(b) == buildEdgesFrom([b EXCEPT !.edgeMap = <<>>], 1)

(* ------------------------------------------------------------------ *)
(* Output assembly                                                    *)
(* ------------------------------------------------------------------ *)
\* Array.prototype.sort is stable: an element goes after every element
\* already placed that does not compare greater.
RECURSIVE sortNodesById(_, _)
sortNodesById(sorted, rest) ==
    IF Len(rest) = 0 THEN sorted
    ELSE LET x == Head(rest)
             k == Cardinality({i \in 1..Len(sorted) : localeCompare(sorted[i].id, x.id) <= 0})
         IN  sortNodesById(SubSeq(sorted, 1, k) \o <<x>> \o SubSeq(sorted, k + 1, Len(sorted)),
                           Tail(rest))

RECURSIVE sortIds(_, _)
sortIds(sorted, rest) ==
    IF Len(rest) = 0 THEN sorted
    ELSE LET x == Head(rest)
             k == Cardinality({i \in 1..Len(sorted) : localeCompare(sorted[i], x) <= 0})
         IN  sortIds(SubSeq(sorted, 1, k) \o <<x>> \o SubSeq(sorted, k + 1, Len(sorted)),
                     Tail(rest))

\* The comparator of lines 344-350.
compareEdges(a, b) ==
    LET byFrom == localeCompare(a.from, b.from)
        byTo == localeCompare(a.to, b.to)
    IN  IF byFrom # 0 THEN byFrom
        ELSE IF byTo # 0 THEN byTo
        ELSE relationCompare(a.relation, b.relation)

RECURSIVE sortEdges(_, _)
sortEdges(sorted, rest) ==
    IF Len(rest) = 0 THEN sorted
    ELSE LET x == Head(rest)
             k == Cardinality({i \in 1..Len(sorted) : compareEdges(sorted[i], x) <= 0})
         IN  sortEdges(SubSeq(sorted, 1, k) \o <<x>> \o SubSeq(sorted, k + 1, Len(sorted)),
                       Tail(rest))

RECURSIVE idsWithDegreeZero(_, _, _, _)
\* nodes.filter((node) => degree(node.id) === 0).map((node) => node.id);
\* end is "to" for the in-degree and "from" for the out-degree.
idsWithDegreeZero(nodes, edges, end, out) ==
    IF Len(nodes) = 0 THEN out
    ELSE LET id == Head(nodes).id
             degree == Cardinality({i \in 1..Len(edges) :
                          (IF end = "to" THEN edges[i].to ELSE edges[i].from) = id})
         IN  idsWithDegreeZero(Tail(nodes), edges, end,
                               IF degree = 0 THEN Append(out, id) ELSE out)

\* The node list without its sort.
outputNodesUnsorted(nodeMap) ==
    [i \in 1..Len(nodeMap) |->
        [id |-> nodeMap[i].id, kind |-> nodeMap[i].kind, name |-> nodeMap[i].name,
         subtype |-> nodeMap[i].subtype, connection |-> nodeMap[i].connection]]

\* Lines 334-342.
outputNodes(nodeMap) ==
    sortNodesById(<<>>,
        [i \in 1..Len(nodeMap) |->
            [id |-> nodeMap[i].id, kind |-> nodeMap[i].kind, name |-> nodeMap[i].name,
             subtype |-> nodeMap[i].subtype, connection |-> nodeMap[i].connection]])

\* Lines 344-350.
outputEdges(edgeMap) ==
    sortEdges(<<>>,
        [i \in 1..Len(edgeMap) |->
            [from |-> edgeMap[i].from, to |-> edgeMap[i].to,
             relation |-> edgeMap[i].relation]])

\* Lines 352-371 of flow-map.ts: in-degree 0 and out-degree 0 node ids, sorted.
degreeRootsAndLeaves(nodes, edges) ==
    [roots |-> sortIds(<<>>, idsWithDegreeZero(nodes, edges, "to", <<>>)),
     leaves |-> sortIds(<<>>, idsWithDegreeZero(nodes, edges, "from", <<>>))]

CountKind(nodes, kind) == Cardinality({i \in 1..Len(nodes) : nodes[i].kind = kind})

flowStats(nodes, edges, roots, leaves) ==
    [nodeCount |-> Len(nodes), edgeCount |-> Len(edges),
     datasets |-> CountKind(nodes, "dataset"), recipes |-> CountKind(nodes, "recipe"),
     roots |-> Len(roots), leaves |-> Len(leaves)]

\* Lines 146-163: the map returned when raw is not an object.
emptyFlowMap(pk) ==
    [projectKey |-> pk, nodes |-> <<>>, edges |-> <<>>,
     stats |-> [nodeCount |-> 0, edgeCount |-> 0, datasets |-> 0, recipes |-> 0,
                roots |-> 0, leaves |-> 0],
     roots |-> <<>>, leaves |-> <<>>, warnings |-> <<NotAnObjectWarning>>]

\* Lines 334-391.
assembleFlowMap(pk, b) ==
    LET nodes == outputNodes(b.nodeMap)
        edges == outputEdges(b.edgeMap)
        rl == degreeRootsAndLeaves(nodes, edges)
    IN  [projectKey |-> pk, nodes |-> nodes, edges |-> edges,
         stats |-> flowStats(nodes, edges, rl.roots, rl.leaves),
         roots |-> rl.roots, leaves |-> rl.leaves, warnings |-> b.warnings]

(* ------------------------------------------------------------------ *)
(* Truncation (projects.ts)                                           *)
(* ------------------------------------------------------------------ *)
\* slice with an end index one too far.
sliceFirstOffByOne(list, n) == SubSeq(list, 1, IF n + 1 < Len(list) THEN n + 1 ELSE Len(list))

\* Array.prototype.slice(0, n) for an integer n >= 0.
sliceFirst(list, n) == SubSeq(list, 1, IF n < Len(list) THEN n ELSE Len(list))

RECURSIVE filterEdgesWithin(_, _, _)
filterEdgesWithin(edges, nodeIds, out) ==
    IF Len(edges) = 0 THEN out
    ELSE filterEdgesWithin(Tail(edges), nodeIds,
            IF Head(edges).from \in nodeIds /\ Head(edges).to \in nodeIds
            THEN Append(out, Head(edges)) ELSE out)

\* The edge list without the endpoint filter.
edgesWithinUnfiltered(edges, nodeIds) == edges

\* normalized.edges.filter((edge) => nodeIds.has(edge.from) && nodeIds.has(edge.to))
edgesWithin(edges, nodeIds) == filterEdgesWithin(edges, nodeIds, <<>>)

\* Roots and leaves with the two degree maps exchanged.
computeRootsAndLeavesSwapped(nodes, edges) ==
    [roots |-> sortIds(<<>>, idsWithDegreeZero(nodes, edges, "from", <<>>)),
     leaves |-> sortIds(<<>>, idsWithDegreeZero(nodes, edges, "to", <<>>))]

computeRootsAndLeaves(nodes, edges) ==
    [roots |-> sortIds(<<>>, idsWithDegreeZero(nodes, edges, "to", <<>>)),
     leaves |-> sortIds(<<>>, idsWithDegreeZero(nodes, edges, "from", <<>>))]

\* The stats object built in truncateFlowMap's return statement.
truncatedStats(nodes, edges, roots, leaves) ==
    [nodeCount |-> Len(nodes), edgeCount |-> Len(edges),
     datasets |-> CountKind(nodes, "dataset"), recipes |-> CountKind(nodes, "recipe"),
     roots |-> Len(roots), leaves |-> Len(leaves)]

\* A cap: Undefined or an integer
Cap(n) == [t |-> "number", n |-> n]

\* The summary with `truncated` taken from the node counts alone.
truncationSummaryNodesOnly(normalized, nodes, edges, maxNodes, maxEdges) ==
    [truncated |-> Len(nodes) < Len(normalized.nodes),
     maxNodes |-> Coalesce(maxNodes, Null),
     maxEdges |-> Coalesce(maxEdges, Null),
     nodeCountBefore |-> Len(normalized.nodes),
     nodeCountAfter |-> Len(nodes),
     edgeCountBefore |-> Len(normalized.edges),
     edgeCountAfter |-> Len(edges)]

\* The summary reporting a truncation also when the counts are equal.
truncationSummaryInclusive(normalized, nodes, edges, maxNodes, maxEdges) ==
    [truncated |-> Len(nodes) <= Len(normalized.nodes)
                     \/ Len(edges) <= Len(normalized.edges),
     maxNodes |-> Coalesce(maxNodes, Null),
     maxEdges |-> Coalesce(maxEdges, Null),
     nodeCountBefore |-> Len(normalized.nodes),
     nodeCountAfter |-> Len(nodes),
     edgeCountBefore |-> Len(normalized.edges),
     edgeCountAfter |-> Len(edges)]

\* The `truncation` object of truncateFlowMap.
truncationSummary(normalized, nodes, edges, maxNodes, maxEdges) ==
    [truncated |-> Len(nodes) < Len(normalized.nodes)
                     \/ Len(edges) < Len(normalized.edges),
     maxNodes |-> Coalesce(maxNodes, Null),
     maxEdges |-> Coalesce(maxEdges, Null),
     nodeCountBefore |-> Len(normalized.nodes),
     nodeCountAfter |-> Len(nodes),
     edgeCountBefore |-> Len(normalized.edges),
     edgeCountAfter |-> Len(edges)]

\* truncateFlowMap returning, when it truncates, its own warning alone.
truncateFlowMapOnlyOwnWarning(normalized, maxNodes, maxEdges) ==
    LET nodes == IF maxNodes = Undefined THEN normalized.nodes
                 ELSE sliceFirst(normalized.nodes, maxNodes.n)
        nodeIds == {nodes[i].id : i \in 1..Len(nodes)}
        edgesWithinNodes == edgesWithin(normalized.edges, nodeIds)
        edges == IF maxEdges = Undefined THEN edgesWithinNodes
                 ELSE sliceFirst(edgesWithinNodes, maxEdges.n)
        rl == computeRootsAndLeaves(nodes, edges)
        truncation == truncationSummary(normalized, nodes, edges, maxNodes, maxEdges)
        warnings ==
            IF truncation.truncated
            THEN <<TruncatedWarning(truncation.nodeCountAfter, truncation.nodeCountBefore,
                                    truncation.edgeCountAfter, truncation.edgeCountBefore)>>
            ELSE normalized.warnings
    IN  [map |-> [normalized EXCEPT
                    !.nodes = nodes, !.edges = edges, !.roots = rl.roots,
                    !.leaves = rl.leaves, !.warnings = warnings,
                    !.stats = truncatedStats(nodes, edges, rl.roots, rl.leaves)],
         truncation |-> truncation]

\* truncateFlowMap returning the stats of the map it was given.
truncateFlowMapKeepingStats(normalized, maxNodes, maxEdges) ==
    LET nodes == IF maxNodes = Undefined THEN normalized.nodes
                 ELSE sliceFirst(normalized.nodes, maxNodes.n)
        nodeIds == {nodes[i].id : i \in 1..Len(nodes)}
        edgesWithinNodes == edgesWithin(normalized.edges, nodeIds)
        edges == IF maxEdges = Undefined THEN edgesWithinNodes
                 ELSE sliceFirst(edgesWithinNodes, maxEdges.n)
        rl == computeRootsAndLeaves(nodes, edges)
        truncation == truncationSummary(normalized, nodes, edges, maxNodes, maxEdges)
        warnings ==
            IF truncation.truncated
            THEN Append(normalized.warnings,
                        TruncatedWarning(truncation.nodeCountAfter, truncation.nodeCountBefore,
                                         truncation.edgeCountAfter, truncation.edgeCountBefore))
            ELSE normalized.warnings
    IN  [map |-> [normalized EXCEPT
                    !.nodes = nodes, !.edges = edges, !.roots = rl.roots,
                    !.leaves = rl.leaves, !.warnings = warnings],
         truncation |-> truncation]

\* truncateFlowMap applying the edge cap before the endpoint filter.
truncateFlowMapCapFirst(normalized, maxNodes, maxEdges) ==
    LET nodes == IF maxNodes = Undefined THEN normalized.nodes
                 ELSE sliceFirst(normalized.nodes, maxNodes.n)
        nodeIds == {nodes[i].id : i \in 1..Len(nodes)}
        cappedEdges == IF maxEdges = Undefined THEN normalized.edges
                       ELSE sliceFirst(normalized.edges, maxEdges.n)
        edges == edgesWithin(cappedEdges, nodeIds)
        rl == computeRootsAndLeaves(nodes, edges)
        truncation == truncationSummary(normalized, nodes, edges, maxNodes, maxEdges)
        warnings ==
            IF truncation.truncated
            THEN Append(normalized.warnings,
                        TruncatedWarning(truncation.nodeCountAfter, truncation.nodeCountBefore,
                                         truncation.edgeCountAfter, truncation.edgeCountBefore))
            ELSE normalized.warnings
    IN  [map |-> [normalized EXCEPT
                    !.nodes = nodes, !.edges = edges, !.roots = rl.roots,
                    !.leaves = rl.leaves, !.warnings = warnings,
                    !.stats = truncatedStats(nodes, edges, rl.roots, rl.leaves)],
         truncation |-> truncation]

\* Lines 1251-1300 of projects.ts.
truncateFlowMap(normalized, maxNodes, maxEdges) ==
    LET nodes == IF maxNodes = Undefined THEN normalized.nodes
                 ELSE sliceFirst(normalized.nodes, maxNodes.n)
        nodeIds == {nodes[i].id : i \in 1..Len(nodes)}
        edgesWithinNodes == edgesWithin(normalized.edges, nodeIds)
        edges == IF maxEdges = Undefined THEN edgesWithinNodes
                 ELSE sliceFirst(edgesWithinNodes, maxEdges.n)
        rl == computeRootsAndLeaves(nodes, edges)
        truncation == truncationSummary(normalized, nodes, edges, maxNodes, maxEdges)
        warnings ==
            IF truncation.truncated
            THEN Append(normalized.warnings,
                        TruncatedWarning(truncation.nodeCountAfter, truncation.nodeCountBefore,
                                         truncation.edgeCountAfter, truncation.edgeCountBefore))
            ELSE normalized.warnings
    IN  [map |-> [normalized EXCEPT
                    !.nodes = nodes, !.edges = edges, !.roots = rl.roots,
                    !.leaves = rl.leaves, !.warnings = warnings,
                    !.stats = truncatedStats(nodes, edges, rl.roots, rl.leaves)],
         truncation |-> truncation]

(* ------------------------------------------------------------------ *)
(* Bounds and the inputs drawn in Init                                *)
(* ------------------------------------------------------------------ *)
\* Total number of adjacency references (entries of predecessors and
\* successors lists) in a raw graph.
MaxRefs == 2
\* Largest cap passed to truncateFlowMap.
MaxCap == 2

IdA == <<"a">>
IdB == <<"b">>
IdC == <<"c">>
IdD == <<"d">>
IdZ == <<"z">>

\* The strings an adjacency list may hold: the three keys and an id that no
\* node entry declares.
RefTargets == {IdA, IdB, IdC, IdZ}

\* A node object with a type tag, optionally a ref and adjacency lists.
PlainNode(type, ref, preds, succs) ==
    NodeObj(Str(type), ref, Undefined, Undefined, Undefined, Undefined, Undefined,
            Undefined, Undefined, preds, succs)

StrItems(list) == Arr([i \in 1..Len(list) |-> Str(list[i])])

\* The lists of at most n references.
RefLists(n) == UNION {[1..k -> RefTargets] : k \in 0..n}

RECURSIVE AdjacencyChoices(_, _)
\* The ways to fill `slots` adjacency lists with at most `budget` references.
AdjacencyChoices(slots, budget) ==
    IF slots = 0 THEN {<<>>}
    ELSE UNION {{<<l>> \o rest : rest \in AdjacencyChoices(slots - 1, budget - Len(l))} :
                l \in RefLists(budget)}

\* raw.nodes in Object.entries order: the dataset entry "c" (with no ref, or
\* a ref naming the id of entry "a", or a ref naming a fresh id), the dataset
\* entry "a" and the recipe entry "b"; "c" and "a" carry the adjacency lists
\* adj[1..4], "b" has none.
RawNodesOf(refC, adj) ==
    NodesObj(<<
        [key |-> IdC, value |-> PlainNode(DATASET, refC, StrItems(adj[1]), StrItems(adj[2]))],
        [key |-> IdA, value |-> PlainNode(DATASET, Undefined, StrItems(adj[3]), StrItems(adj[4]))],
        [key |-> IdB, value |-> PlainNode(RECIPE, Undefined, Undefined, Undefined)]>>)

\* raw.datasets is absent, or names "z" (which no node entry declares) and
\* the declared "a".
GraphRaws ==
    {RootObj(RawNodesOf(refC, adj), datasets, Undefined, Undefined) :
        refC \in {Undefined, Str(IdA), Str(IdD)},
        adj \in AdjacencyChoices(4, MaxRefs),
        datasets \in {Undefined, StrItems(<<IdZ, IdA>>)}}

NonObjectRaws ==
    {Undefined, Null, Num, Bool, Str(<<>>), Str(<<"n","o">>), Arr(<<>>),
     Arr(<<Str(IdA)>>)}

NoOptions ==
    [folderNamesById |-> Undefined, allDatasetNames |-> Undefined,
     allRecipeNames |-> Undefined, allFolderIds |-> Undefined]

\* Inventories as the map action supplies them.
InventoryOptions ==
    [folderNamesById |-> [t |-> "object", map |-> [id \in {IdD} |-> Str(<<"e">>)]],
     allDatasetNames |-> Arr(<<IdA>>),
     allRecipeNames |-> Arr(<<IdB>>),
     allFolderIds |-> Arr(<<IdD>>)]

ProjectKeys == {<<"P","1">>, <<"P","2">>}

NoMap == [t |-> "undefined"]
NoTruncation == [t |-> "undefined"]
\* No map action is running.
NoArguments == [t |-> "undefined"]
\* No call of asStringArray on its own.
NoCoercion == [t |-> "undefined"]

(* ------------------------------------------------------------------ *)
(* State                                                              *)
(* ------------------------------------------------------------------ *)
VARIABLES
    raw,         \* argument raw of normalizeFlowGraph
    projectKey,  \* argument projectKey
    options,     \* argument options
    pc,          \* position in normalizeFlowGraph / after truncateFlowMap
    calls,       \* number of calls of normalizeFlowGraph started
    nodeMap, aliasMap, edgeMap, warnings,   \* the locals of the running call
    normalized,  \* the map returned by the last call that returned
    previous,    \* the map returned by the call before it
    maxNodes, maxEdges,   \* the caps given to truncateFlowMap
    truncated,   \* the {map, truncation} returned by truncateFlowMap
    requested,   \* the maxNodes / maxEdges arguments of the map action
    coercion     \* a call of asStringArray on its own: arguments and result

vars == <<raw, projectKey, options, pc, calls, nodeMap, aliasMap, edgeMap, warnings,
          normalized, previous, maxNodes, maxEdges, truncated, requested, coercion>>

inputs == <<raw, projectKey, options>>
truncationVars == <<maxNodes, maxEdges, truncated, requested>>

Builder == [nodeMap |-> nodeMap, aliasMap |-> aliasMap, edgeMap |-> edgeMap,
            warnings |-> warnings]

SetBuilder(b) ==
    /\ nodeMap' = b.nodeMap
    /\ aliasMap' = b.aliasMap
    /\ edgeMap' = b.edgeMap
    /\ warnings' = b.warnings

InitState ==
    /\ pc = "idle"
    /\ calls = 0
    /\ nodeMap = <<>>
    /\ aliasMap = EmptyAliasMap
    /\ edgeMap = <<>>
    /\ warnings = <<>>
    /\ normalized = NoMap
    /\ previous = NoMap
    /\ maxNodes = Undefined
    /\ maxEdges = Undefined
    /\ truncated = NoTruncation
    /\ requested = NoArguments
    /\ coercion = NoCoercion

Init ==
    /\ \/ raw \in GraphRaws /\ projectKey = <<"P","1">> /\ options = NoOptions
       \/ raw \in NonObjectRaws /\ projectKey \in ProjectKeys
            /\ options \in {NoOptions, InventoryOptions}
    /\ InitState

(* ------------------------------------------------------------------ *)
(* Actions                                                            *)
(* ------------------------------------------------------------------ *)
\* Lines 143-166 for a call made at `start`: raw is an object; the call
\* creates its warnings list and its node and alias maps.
CallWithObject(start) ==
    /\ start
    /\ asRecord(raw) # Undefined
    /\ pc' = "nodes"
    /\ calls' = calls + 1
    /\ previous' = normalized
    /\ nodeMap' = <<>>
    /\ aliasMap' = EmptyAliasMap
    /\ edgeMap' = <<>>
    /\ warnings' = <<>>
    /\ maxNodes' = Undefined
    /\ maxEdges' = Undefined
    /\ truncated' = NoTruncation
    /\ requested' = NoArguments
    /\ UNCHANGED <<inputs, normalized>>
    /\ UNCHANGED coercion

\* Lines 143-163 for a call made at `start`: raw is not an object.
CallWithNonObject(start) ==
    /\ start
    /\ asRecord(raw) = Undefined
    /\ pc' = "returned"
    /\ calls' = calls + 1
    /\ previous' = normalized
    /\ normalized' = emptyFlowMap(projectKey)
    /\ nodeMap' = <<>>
    /\ aliasMap' = EmptyAliasMap
    /\ edgeMap' = <<>>
    /\ warnings' = <<>>
    /\ maxNodes' = Undefined
    /\ maxEdges' = Undefined
    /\ truncated' = NoTruncation
    /\ requested' = NoArguments
    /\ UNCHANGED inputs
    /\ UNCHANGED coercion

\* The first call.
Enter == CallWithObject(pc = "idle")
ReturnNotAnObject == CallWithNonObject(pc = "idle")

\* A second call with a warnings list that outlives the first call.
EnterAgainKeepingWarnings ==
    /\ pc = "returned"
    /\ calls = 1
    /\ asRecord(raw) # Undefined
    /\ pc' = "nodes"
    /\ calls' = calls + 1
    /\ previous' = normalized
    /\ nodeMap' = <<>>
    /\ aliasMap' = EmptyAliasMap
    /\ edgeMap' = <<>>
    /\ UNCHANGED <<inputs, normalized, warnings, truncationVars>>
    /\ UNCHANGED coercion

\* A second call with the same arguments, after the first has returned.
EnterAgain == CallWithObject(pc = "returned" /\ calls = 1)
ReturnNotAnObjectAgain == CallWithNonObject(pc = "returned" /\ calls = 1)

\* Lines 216-265.
NodesPass ==
    /\ pc = "nodes"
    /\ SetBuilder(nodesPass(Builder, asRecord(raw), options))
    /\ pc' = "enumerations"
    /\ UNCHANGED <<inputs, calls, normalized, previous, truncationVars>>
    /\ UNCHANGED coercion

\* Lines 267-296.
EnumerationsPass ==
    /\ pc = "enumerations"
    /\ SetBuilder(enumerationsPass(Builder, asRecord(raw), options))
    /\ pc' = "rename"
    /\ UNCHANGED <<inputs, calls, normalized, previous, truncationVars>>
    /\ UNCHANGED coercion

\* Lines 298-304.
RenameFolders ==
    /\ pc = "rename"
    /\ nodeMap' = renameFolders(nodeMap, options)
    /\ pc' = "edges"
    /\ UNCHANGED <<inputs, calls, aliasMap, edgeMap, warnings, normalized, previous,
                   truncationVars>>
    /\ UNCHANGED coercion

\* Lines 306-332.
EdgesPass ==
    /\ pc = "edges"
    /\ SetBuilder(edgesPass(Builder))
    /\ pc' = "assemble"
    /\ UNCHANGED <<inputs, calls, normalized, previous, truncationVars>>
    /\ UNCHANGED coercion

\* Lines 334-391.
Return ==
    /\ pc = "assemble"
    /\ normalized' = assembleFlowMap(projectKey, Builder)
    /\ pc' = "returned"
    /\ UNCHANGED <<inputs, calls, nodeMap, aliasMap, edgeMap, warnings, previous,
                   truncationVars>>
    /\ UNCHANGED coercion

Caps == {Undefined} \cup {Cap(n) : n \in 1..MaxCap}

\* truncateFlowMap applied to the map just returned.
Truncate ==
    /\ pc = "returned"
    /\ \E n \in Caps, m \in Caps :
          /\ maxNodes' = n
          /\ maxEdges' = m
          /\ truncated' = truncateFlowMap(normalized, n, m)
    /\ pc' = "truncated"
    /\ UNCHANGED <<inputs, calls, nodeMap, aliasMap, edgeMap, warnings, normalized,
                   previous, requested>>
    /\ UNCHANGED coercion

\* normalizeFlowGraph, then truncateFlowMap, as the map action runs them.
Next ==
    \/ Enter
    \/ ReturnNotAnObject
    \/ NodesPass
    \/ EnumerationsPass
    \/ RenameFolders
    \/ EdgesPass
    \/ Return
    \/ Truncate

Spec == Init /\ [][Next]_vars

\* normalizeFlowGraph called twice with the same arguments.
NextTwice ==
    \/ Enter
    \/ ReturnNotAnObject
    \/ EnterAgain
    \/ ReturnNotAnObjectAgain
    \/ NodesPass
    \/ EnumerationsPass
    \/ RenameFolders
    \/ EdgesPass
    \/ Return

SpecTwice == Init /\ [][NextTwice]_vars

\* One call of normalizeFlowGraph on an object.
NextNormalize ==
    \/ Enter
    \/ NodesPass
    \/ EnumerationsPass
    \/ RenameFolders
    \/ EdgesPass
    \/ Return

(* ------------------------------------------------------------------ *)
(* The same graph declared in two orders                              *)
(* ------------------------------------------------------------------ *)
\* The strings an adjacency list of this family may hold.
ReorderTargets == {IdA, IdC, IdD, IdZ}

\* raw.nodes: the dataset entries "a" and "c" and the recipe entry "b"; "c"
\* may carry an `id` field and a ref, "b" lists its predecessors.
ReorderRaws ==
    {RootObj(
        NodesObj(<<
            [key |-> IdA, value |-> PlainNode(DATASET, Undefined, Undefined, Undefined)],
            [key |-> IdC,
             value |-> NodeObj(Str(DATASET), refC, idC, Undefined, Undefined, Undefined,
                               Undefined, Undefined, Undefined, Undefined, Undefined)],
            [key |-> IdB, value |-> PlainNode(RECIPE, Undefined, StrItems(preds), Undefined)]>>),
        datasets, Undefined, Undefined) :
        refC \in {Undefined, Str(IdA), Str(IdD)},
        idC \in {Undefined, Str(IdA)},
        preds \in UNION {[1..k -> ReorderTargets] : k \in 0..MaxRefs},
        datasets \in {Undefined, StrItems(<<IdZ, IdA>>)}}

InitReorder ==
    /\ raw \in ReorderRaws
    /\ projectKey = <<"P","1">>
    /\ options = NoOptions
    /\ InitState

Permute(list, perm) == [i \in 1..Len(list) |-> list[perm[i]]]
Reverse(list) == [i \in 1..Len(list) |-> list[Len(list) + 1 - i]]
ReverseItems(v) == IF v.t = "array" THEN Arr(Reverse(v.items)) ELSE v

\* The raw graph with the entries of `nodes` in the order perm and, when
\* flip, the items of each enumeration list reversed.
Reordered(root, perm, flip) ==
    [root EXCEPT
        !.nodes = NodesObj(Permute(root.nodes.entries, perm)),
        !.datasets = IF flip THEN ReverseItems(@) ELSE @,
        !.recipes = IF flip THEN ReverseItems(@) ELSE @,
        !.folders = IF flip THEN ReverseItems(@) ELSE @]

\* A second call (lines 143-166) whose raw declares the same entries and the
\* same enumeration items in another order.
EnterReordered ==
    /\ pc = "returned"
    /\ calls = 1
    /\ asRecord(raw) # Undefined
    /\ \E perm \in Permutations(1..Len(raw.nodes.entries)), flip \in BOOLEAN :
          raw' = Reordered(raw, perm, flip)
    /\ pc' = "nodes"
    /\ calls' = calls + 1
    /\ previous' = normalized
    /\ nodeMap' = <<>>
    /\ aliasMap' = EmptyAliasMap
    /\ edgeMap' = <<>>
    /\ warnings' = <<>>
    /\ UNCHANGED <<projectKey, options, normalized, truncationVars>>
    /\ UNCHANGED coercion

NextReorder ==
    \/ Enter
    \/ EnterReordered
    \/ NodesPass
    \/ EnumerationsPass
    \/ RenameFolders
    \/ EdgesPass
    \/ Return

SpecReorder == InitReorder /\ [][NextReorder]_vars

(* ------------------------------------------------------------------ *)
(* Declarations with attributes, enumerations and inventories         *)
(* ------------------------------------------------------------------ *)
RUNNABLE_IMPLICIT_RECIPE == <<"R","U","N","N","A","B","L","E","_">> \o IMPLICIT_RECIPE
runnable_implicit_recipe ==
    <<"r","u","n","n","a","b","l","e","_","i","m","p","l","i","c","i","t","_",
      "r","e","c","i","p","e">>
COMPUTABLE_FOLDER == <<"C","O","M","P","U","T","A","B","L","E","_">> \o FOLDER

\* The node objects of this family, with the successors list given:
\* datasets with and without subType / subtype / connection, implicit
\* recipes in either letter case with and without a subType, folders with and
\* without a name, and objects without a usable type tag.
NodeShapes(succs) ==
    {NodeObj(Str(DATASET), Undefined, Undefined, Undefined, Undefined, Undefined,
             Undefined, Undefined, Undefined, Undefined, succs),
     NodeObj(Str(DATASET), Undefined, Undefined, Str(<<"x">>), Str(<<"y">>), Undefined,
             Undefined, Str(<<"p">>), ParamsObj(Str(<<"q">>)), Undefined, succs),
     NodeObj(Str(DATASET), Undefined, Undefined, Str(<<>>), Str(<<"y">>), Str(<<"n">>),
             Undefined, Num, ParamsObj(Str(<<"q">>)), Undefined, succs),
     NodeObj(Str(RUNNABLE_IMPLICIT_RECIPE), Undefined, Undefined, Undefined, Undefined,
             Undefined, Undefined, Undefined, Undefined, Undefined, succs),
     NodeObj(Str(runnable_implicit_recipe), Undefined, Undefined, Num, Str(<<>>),
             Str(<<>>), Str(<<"l">>), Undefined, Undefined, Undefined, succs),
     NodeObj(Str(RUNNABLE_IMPLICIT_RECIPE), Undefined, Undefined, Str(<<"x">>), Undefined,
             Undefined, Undefined, Undefined, Undefined, Undefined, succs),
     NodeObj(Str(COMPUTABLE_FOLDER), Undefined, Undefined, Undefined, Undefined,
             Str(<<"n">>), Undefined, Undefined, Undefined, Undefined, succs),
     NodeObj(Str(COMPUTABLE_FOLDER), Undefined, Undefined, Undefined, Undefined,
             Undefined, Undefined, Undefined, Undefined, Undefined, succs),
     NodeObj(Undefined, Undefined, Undefined, Undefined, Undefined, Undefined,
             Undefined, Undefined, Undefined, Undefined, succs)}

\* raw.nodes holds the entry "c" (with no ref, or a ref naming "a") and the
\* entry "a"; the enumeration lists name "a", the undeclared "z" and "d".
DeclaredRaws ==
    {RootObj(
        NodesObj(<<[key |-> IdC, value |-> [shapeC EXCEPT !.ref = refC]],
                   [key |-> IdA, value |-> shapeA]>>),
        datasets, recipes, folders) :
        shapeC \in UNION {NodeShapes(succs) :
                            succs \in {Undefined, StrItems(<<IdZ>>), StrItems(<<IdB>>)}},
        shapeA \in NodeShapes(Undefined),
        refC \in {Undefined, Str(IdA)},
        datasets \in {Undefined, StrItems(<<IdZ, IdA>>)},
        recipes \in {Undefined, StrItems(<<IdA>>)},
        folders \in {Undefined, StrItems(<<IdA, IdD>>)}}

InitDeclared ==
    /\ raw \in DeclaredRaws
    /\ projectKey = <<"P","1">>
    /\ options \in {NoOptions, InventoryOptions}
    /\ InitState

SpecDeclared == InitDeclared /\ [][NextNormalize]_vars

(* ------------------------------------------------------------------ *)
(* Malformed and well-formed parts                                    *)
(* ------------------------------------------------------------------ *)
\* Largest number of items in an array of this family.
MaxItems == 2

\* The items an array may hold: two references, the empty string and a
\* number.
ArrayItems == {Str(IdA), Str(IdZ), Str(<<>>), Num}
ArraysOf(n) == {Arr(items) : items \in UNION {[1..k -> ArrayItems] : k \in 0..n}}

\* The values of an adjacency field: absent, not an array, or an array.
FieldValues == {Undefined, Num, Str(IdA)} \cup ArraysOf(MaxItems)

\* The values of raw.nodes.c: not an object, or an object with adjacency
\* fields.
EntryValuesC ==
    {Null, Num, Str(IdA), Arr(<<>>)}
    \cup {PlainNode(DATASET, Undefined, preds, succs) :
            preds \in FieldValues,
            succs \in {Undefined, Num, StrItems(<<IdA>>), Arr(<<Str(IdZ), Str(<<>>)>>)}}

MalformedRaws ==
    {RootObj(
        NodesObj(<<[key |-> IdC, value |-> valueC],
                   [key |-> IdA, value |-> PlainNode(DATASET, Undefined, Undefined, succsA)]>>),
        datasets, recipes, Undefined) :
        valueC \in EntryValuesC,
        succsA \in {Undefined, StrItems(<<IdC>>)},
        datasets \in {Undefined, Num, Arr(<<>>), StrItems(<<IdZ>>),
                      Arr(<<Str(IdZ), Num>>), Arr(<<Str(<<>>), Str(IdA)>>)},
        recipes \in {Undefined, Str(IdA)}}
    \cup {RootObj(nodes, datasets, Undefined, folders) :
            nodes \in {Undefined, Null, Num, Str(IdA), Arr(<<>>)},
            datasets \in {Undefined, StrItems(<<IdZ>>), Arr(<<Str(IdZ), Num>>)},
            folders \in {Undefined, Bool}}

\* { nodes: {}, datasets: [], recipes: [], folders: [] }
EmptyGraphRaw == RootObj(NodesObj(<<>>), Arr(<<>>), Arr(<<>>), Arr(<<>>))

InitMalformed ==
    /\ raw \in MalformedRaws \cup {EmptyGraphRaw}
    /\ projectKey = <<"P","1">>
    /\ options = NoOptions
    /\ InitState

SpecMalformed == InitMalformed /\ [][NextNormalize]_vars

(* ------------------------------------------------------------------ *)
(* The project "map" action (projects.ts)                             *)
(* ------------------------------------------------------------------ *)
DEFAULT_MAP_MAX_NODES == 300
DEFAULT_MAP_MAX_EDGES == 600

\* The outcome of one inventory request under Promise.allSettled.
Rejected == [status |-> "rejected"]
Fulfilled(value) == [status |-> "fulfilled", value |-> value]

\* An item of the managed folders, datasets or recipes listing.
Listed(id, name) == [id |-> id, name |-> name]

\* The folders with a non-empty id, in listing order.
listedFolders(foldersRes) ==
    IF foldersRes.status = "fulfilled"
    THEN SelectSeq(foldersRes.value, LAMBDA f : asString(f.id) # Undefined)
    ELSE <<>>

\* typeof n === "string" && n.length > 0
listedNames(res) ==
    IF res.status = "fulfilled"
    THEN LET named == SelectSeq(res.value, LAMBDA d : asString(d.name) # Undefined)
         IN  Arr([k \in 1..Len(named) |-> named[k].name.s])
    ELSE Arr(<<>>)

\* The options the map action passes to normalizeFlowGraph.
mapOptions(foldersRes, datasetsRes, recipesRes) ==
    LET folders == listedFolders(foldersRes)
        ids == {folders[k].id.s : k \in 1..Len(folders)}
        lastOf(id) == CHOOSE k \in 1..Len(folders) :
                        /\ folders[k].id.s = id
                        /\ \A j \in 1..Len(folders) : folders[j].id.s = id => j <= k
    IN  [folderNamesById |->
            [t |-> "object",
             map |-> [id \in ids |-> Coalesce(folders[lastOf(id)].name,
                                               folders[lastOf(id)].id)]],
         allDatasetNames |-> listedNames(datasetsRes),
         allRecipeNames |-> listedNames(recipesRes),
         allFolderIds |-> Arr([k \in 1..Len(folders) |-> folders[k].id.s])]

\* The outcomes of the three inventory requests.
FolderListings ==
    {Rejected, Fulfilled(<<Listed(Str(IdD), Str(<<"e">>))>>),
     Fulfilled(<<Listed(Undefined, Str(<<"e">>)), Listed(Str(IdD), Undefined)>>)}
DatasetListings ==
    {Rejected, Fulfilled(<<Listed(Undefined, Str(IdA)), Listed(Undefined, Undefined)>>)}
RecipeListings == {Rejected, Fulfilled(<<Listed(Undefined, Str(IdB))>>)}

\* The flow graph the action fetched: the three entries with at most one
\* adjacency reference, or a payload that is not an object.
MapRaws ==
    {RootObj(RawNodesOf(Undefined, adj), Undefined, Undefined, Undefined) :
        adj \in AdjacencyChoices(4, 1)}
    \cup {Null, Str(<<"n","o">>)}

InitMapAction ==
    /\ raw \in MapRaws
    /\ projectKey = <<"P","1">>
    /\ \E f \in FolderListings, d \in DatasetListings, r \in RecipeListings :
          options = mapOptions(f, d, r)
    /\ InitState

\* The end of the map action with the requested caps passed on as they are.
MapActionTruncateWithoutDefaults ==
    /\ pc = "returned"
    /\ \E n \in Caps, m \in Caps :
          /\ requested' = [maxNodes |-> n, maxEdges |-> m]
          /\ maxNodes' = n
          /\ maxEdges' = m
          /\ truncated' = truncateFlowMap(normalized, n, m)
    /\ pc' = "truncated"
    /\ UNCHANGED <<inputs, calls, nodeMap, aliasMap, edgeMap, warnings, normalized,
                   previous>>
    /\ UNCHANGED coercion

\* Lines 1457-1463 of the map action: the caps the schema admits (absent or
\* an integer >= 1), the defaults, and truncateFlowMap on the normalized map.
MapActionTruncate ==
    /\ pc = "returned"
    /\ \E n \in Caps, m \in Caps :
          LET effectiveMaxNodes == Coalesce(n, Cap(DEFAULT_MAP_MAX_NODES))
              effectiveMaxEdges == Coalesce(m, Cap(DEFAULT_MAP_MAX_EDGES))
          IN  /\ requested' = [maxNodes |-> n, maxEdges |-> m]
              /\ maxNodes' = effectiveMaxNodes
              /\ maxEdges' = effectiveMaxEdges
              /\ truncated' = truncateFlowMap(normalized, effectiveMaxNodes,
                                              effectiveMaxEdges)
    /\ pc' = "truncated"
    /\ UNCHANGED <<inputs, calls, nodeMap, aliasMap, edgeMap, warnings, normalized,
                   previous>>
    /\ UNCHANGED coercion

\* The map action: normalizeFlowGraph on the fetched graph, then the
\* truncation.
NextMapAction ==
    \/ Enter
    \/ ReturnNotAnObject
    \/ NodesPass
    \/ EnumerationsPass
    \/ RenameFolders
    \/ EdgesPass
    \/ Return
    \/ MapActionTruncate

SpecMapAction == InitMapAction /\ [][NextMapAction]_vars

(* ------------------------------------------------------------------ *)
(* Ids that contain the separator of the edge key                     *)
(* ------------------------------------------------------------------ *)
IdAA == <<"a", ":", ":", "a">>
IdAB == <<"a", ":", ":", "b">>

\* The strings a successors list of this family may hold.
SeparatorTargets == {IdA, IdB, IdAB}

\* raw.nodes: the datasets "a::a", "a" and "a::b" and the recipe "b";
\* "a::a" and "a" list successors.
SeparatorRaws ==
    {RootObj(
        NodesObj(<<
            [key |-> IdAA, value |-> PlainNode(DATASET, Undefined, Undefined, StrItems(s1))],
            [key |-> IdA, value |-> PlainNode(typeA, Undefined, Undefined, StrItems(s2))],
            [key |-> IdB, value |-> PlainNode(RECIPE, Undefined, Undefined, Undefined)],
            [key |-> IdAB, value |-> PlainNode(DATASET, Undefined, Undefined, Undefined)]>>),
        Undefined, Undefined, Undefined) :
        s1 \in UNION {[1..k -> SeparatorTargets] : k \in 0..MaxRefs},
        s2 \in UNION {[1..k -> SeparatorTargets] : k \in 0..MaxRefs},
        typeA \in {DATASET, RECIPE}}

InitSeparator ==
    /\ raw \in SeparatorRaws
    /\ projectKey = <<"P","1">>
    /\ options = NoOptions
    /\ InitState

SpecSeparator == InitSeparator /\ [][NextNormalize]_vars

(* ------------------------------------------------------------------ *)
(* Entries that share reference forms                                 *)
(* ------------------------------------------------------------------ *)
\* The strings a predecessors list of this family may hold.
AliasTargets == {IdA, IdC, IdD, IdZ}

\* raw.nodes: the dataset entry "c" (with or without a ref and an `id`
\* field), the dataset entry "a" and the recipe entry "b", which lists its
\* predecessors; raw.datasets is absent, names the key "c", or names "z" and
\* "a".
AliasRaws ==
    {RootObj(
        NodesObj(<<
            [key |-> IdC,
             value |-> NodeObj(Str(DATASET), refC, idC, Undefined, Undefined, Undefined,
                               Undefined, Undefined, Undefined, Undefined, Undefined)],
            [key |-> IdA, value |-> PlainNode(DATASET, Undefined, Undefined, Undefined)],
            [key |-> IdB, value |-> PlainNode(RECIPE, Undefined, StrItems(preds), Undefined)]>>),
        datasets, Undefined, Undefined) :
        refC \in {Undefined, Str(IdA), Str(IdD)},
        idC \in {Undefined, Str(IdA), Str(IdZ)},
        preds \in UNION {[1..k -> AliasTargets] : k \in 0..MaxRefs},
        datasets \in {Undefined, StrItems(<<IdC>>), StrItems(<<IdZ, IdA>>)}}

InitAliases ==
    /\ raw \in AliasRaws
    /\ projectKey = <<"P","1">>
    /\ options = NoOptions
    /\ InitState

SpecAliases == InitAliases /\ [][NextNormalize]_vars

(* ------------------------------------------------------------------ *)
(* References to nodes declared later or elsewhere                    *)
(* ------------------------------------------------------------------ *)
\* The strings an adjacency list of this family may hold.
ForwardTargets == {IdA, IdD, IdZ}
ForwardLists == UNION {[1..k -> ForwardTargets] : k \in 0..MaxRefs}

\* raw.nodes: the recipe entry "c", which lists predecessors and
\* successors, and after it the dataset entry "a" (with no ref, or the ref
\* "d"); raw.datasets is absent or names "z".
ForwardRaws ==
    {RootObj(
        NodesObj(<<
            [key |-> IdC, value |-> PlainNode(RECIPE, Undefined, StrItems(preds), StrItems(succs))],
            [key |-> IdA, value |-> PlainNode(DATASET, refA, Undefined, Undefined)]>>),
        datasets, Undefined, Undefined) :
        preds \in ForwardLists,
        succs \in ForwardLists,
        refA \in {Undefined, Str(IdD)},
        datasets \in {Undefined, StrItems(<<IdZ>>)}}

InitForward ==
    /\ raw \in ForwardRaws
    /\ projectKey = <<"P","1">>
    /\ options \in {NoOptions, InventoryOptions}
    /\ InitState

SpecForward == InitForward /\ [][NextNormalize]_vars

(* ------------------------------------------------------------------ *)
(* Two entries that declare the same node                             *)
(* ------------------------------------------------------------------ *)
\* The predecessors field of the first entry: absent, not an array, or an
\* array of references and numbers.
RedeclaredItems == {Str(IdB), Str(IdZ), Num}
RedeclaredFields ==
    {Undefined, Num}
    \cup {Arr(items) : items \in UNION {[1..k -> RedeclaredItems] : k \in 0..MaxItems}}

\* raw.nodes: the dataset entry "c" (with no ref, or the ref "a"), then the
\* dataset entry "a", then the recipe entry "b"; "c" and "a" carry
\* adjacency fields.
RedeclaredRaws ==
    {RootObj(
        NodesObj(<<
            [key |-> IdC, value |-> PlainNode(DATASET, refC, predsC, succsC)],
            [key |-> IdA, value |-> PlainNode(DATASET, Undefined, predsA, succsA)],
            [key |-> IdB, value |-> PlainNode(RECIPE, Undefined, Undefined, Undefined)]>>),
        Undefined, Undefined, Undefined) :
        refC \in {Undefined, Str(IdA)},
        predsC \in RedeclaredFields,
        succsC \in {Undefined, StrItems(<<IdB>>)},
        predsA \in {Undefined, StrItems(<<IdZ>>)},
        succsA \in {Undefined, StrItems(<<IdZ>>), Arr(<<Str(IdB), Str(<<>>)>>)}}

InitRedeclared ==
    /\ raw \in RedeclaredRaws
    /\ projectKey = <<"P","1">>
    /\ options = NoOptions
    /\ InitState

SpecRedeclared == InitRedeclared /\ [][NextNormalize]_vars

(* ------------------------------------------------------------------ *)
(* Edges between nodes of every kind                                  *)
(* ------------------------------------------------------------------ *)
\* The type tags of this family: one per kind, and none.
KindTypes == {Str(DATASET), Str(RECIPE), Str(FOLDER), Undefined}

\* raw.nodes: the entries "c" and "a", each of any kind; "c" lists
\* successors among "a" and the undeclared "z", "a" lists predecessors among
\* "c" and "z" and may list "c" as successor.
RelationRaws ==
    {RootObj(
        NodesObj(<<
            [key |-> IdC,
             value |-> NodeObj(typeC, Undefined, Undefined, Undefined, Undefined, Undefined,
                               Undefined, Undefined, Undefined, Undefined, StrItems(succsC))],
            [key |-> IdA,
             value |-> NodeObj(typeA, Undefined, Undefined, Undefined, Undefined, Undefined,
                               Undefined, Undefined, Undefined, StrItems(predsA), succsA)]>>),
        Undefined, Undefined, Undefined) :
        typeC \in KindTypes,
        typeA \in KindTypes,
        succsC \in UNION {[1..k -> {IdA, IdZ}] : k \in 0..MaxRefs},
        predsA \in UNION {[1..k -> {IdC, IdZ}] : k \in 0..MaxRefs},
        succsA \in {Undefined, StrItems(<<IdC>>)}}

InitRelations ==
    /\ raw \in RelationRaws
    /\ projectKey = <<"P","1">>
    /\ options = NoOptions
    /\ InitState

SpecRelations == InitRelations /\ [][NextNormalize]_vars

(* ------------------------------------------------------------------ *)
(* asStringArray on its own                                           *)
(* ------------------------------------------------------------------ *)
\* The `value` arguments: undefined, values that are not arrays, and the
\* arrays of at most MaxItems items.
CoercionValues ==
    {Undefined, Null, Num, Bool, Str(<<>>), Str(IdA), NodesObj(<<>>)} \cup ArraysOf(MaxItems)

\* The `context` arguments.
CoercionContexts == {RootContext("datasets"), NodeContext(IdC, "predecessors")}

\* The `warnings` arrays the call may be handed: empty, or holding earlier
\* warnings, one of them of the kind the call itself pushes.
EarlierWarnings ==
    {<<>>, <<NodeNotObjectWarning(IdA)>>,
     <<NonStringItemWarning(RootContext("datasets")), NodesNotObjectWarning>>}

\* The function has not returned.
NotReturned == [t |-> "undefined"]

InitCoercion ==
    /\ \E value \in CoercionValues, context \in CoercionContexts,
          before \in EarlierWarnings :
          coercion = [value |-> value, context |-> context, before |-> before,
                      warnings |-> before, out |-> NotReturned]
    /\ raw = Undefined
    /\ projectKey = <<"P","1">>
    /\ options = NoOptions
    /\ pc = "idle"
    /\ calls = 0
    /\ nodeMap = <<>>
    /\ aliasMap = EmptyAliasMap
    /\ edgeMap = <<>>
    /\ warnings = <<>>
    /\ normalized = NoMap
    /\ previous = NoMap
    /\ maxNodes = Undefined
    /\ maxEdges = Undefined
    /\ truncated = NoTruncation
    /\ requested = NoArguments

\* asStringArray(value, warnings, context) runs and returns.
Coerce ==
    /\ coercion # NoCoercion
    /\ coercion.out = NotReturned
    /\ LET result == asStringArray(coercion.value, coercion.warnings, coercion.context)
       IN  coercion' = [coercion EXCEPT !.out = Arr(result.out),
                                        !.warnings = result.warnings]
    /\ UNCHANGED <<inputs, pc, calls, nodeMap, aliasMap, edgeMap, warnings, normalized,
                   previous, truncationVars>>

NextCoercion == Coerce

SpecCoercion == InitCoercion /\ [][NextCoercion]_vars

(* ------------------------------------------------------------------ *)
(* Folders and the folder name lookup                                 *)
(* ------------------------------------------------------------------ *)
\* options.folderNamesById: absent, a name for "d", or a name for "d" and an
\* empty name for "a".
FolderLookups ==
    {Undefined,
     [t |-> "object", map |-> [id \in {IdD} |-> Str(<<"e">>)]],
     [t |-> "object", map |-> [id \in {IdD, IdA} |-> IF id = IdD THEN Str(<<"e">>)
                                                    ELSE Str(<<>>)]]}

\* raw.nodes: the entry "d", untyped, a folder or a dataset, with no name,
\* its own id as name, or another name, and the entry "a", untyped or a
\* folder; raw.folders and raw.datasets may name them.
FolderRaws ==
    {RootObj(
        NodesObj(<<
            [key |-> IdD,
             value |-> NodeObj(typeD, Undefined, Undefined, Undefined, Undefined, nameD,
                               Undefined, Undefined, Undefined, Undefined, Undefined)],
            [key |-> IdA,
             value |-> NodeObj(typeA, Undefined, Undefined, Undefined, Undefined, Undefined,
                               Undefined, Undefined, Undefined, Undefined, StrItems(<<IdD>>))]>>),
        datasets, Undefined, folders) :
        typeD \in {Undefined, Str(COMPUTABLE_FOLDER), Str(DATASET)},
        nameD \in {Undefined, Str(IdD), Str(<<"n">>)},
        typeA \in {Undefined, Str(COMPUTABLE_FOLDER), Str(RECIPE)},
        datasets \in {Undefined, StrItems(<<IdD>>)},
        folders \in {Undefined, StrItems(<<IdD>>), StrItems(<<IdA, IdD>>)}}

InitFolders ==
    /\ raw \in FolderRaws
    /\ projectKey = <<"P","1">>
    /\ \E lookup \in FolderLookups : options = [NoOptions EXCEPT !.folderNamesById = lookup]
    /\ InitState

SpecFolders == InitFolders /\ [][NextNormalize]_vars

(* ------------------------------------------------------------------ *)
(* What the input says, read off raw and options directly             *)
(* ------------------------------------------------------------------ *)
IsObject(v) == v.t = "object"
IsNonEmptyString(v) == v.t = "string" /\ v.s # <<>>

\* The entries of raw.nodes whose value is an object.
RawEntries ==
    IF IsObject(raw) /\ IsObject(Prop(raw, "nodes")) THEN raw.nodes.entries ELSE <<>>
ObjectEntryIndexes == {i \in 1..Len(RawEntries) : IsObject(RawEntries[i].value)}

CanonicalIdOf(entry) ==
    IF IsNonEmptyString(entry.value.ref) THEN entry.value.ref.s ELSE entry.key

\* The non-empty strings of an array value.
StringsIn(v) ==
    IF v.t = "array"
    THEN {v.items[k].s : k \in {j \in 1..Len(v.items) : IsNonEmptyString(v.items[j])}}
    ELSE {}

AdjacencyRefsOf(entry) ==
    StringsIn(entry.value.predecessors) \cup StringsIn(entry.value.successors)

\* Every reference written in some adjacency list of the input.
AllAdjacencyRefs == UNION {AdjacencyRefsOf(RawEntries[i]) : i \in ObjectEntryIndexes}

\* The entries that are the last declaration of their canonical id.
LastDeclarationIndexes ==
    {i \in ObjectEntryIndexes :
        \A j \in ObjectEntryIndexes :
            j > i => CanonicalIdOf(RawEntries[j]) # CanonicalIdOf(RawEntries[i])}

\* The references of the adjacency lists a node finally holds.
RetainedAdjacencyRefs ==
    UNION {AdjacencyRefsOf(RawEntries[i]) : i \in LastDeclarationIndexes}

InventoryNames(list) ==
    IF list = Undefined THEN {} ELSE {list.items[k] : k \in 1..Len(list.items)} \ {<<>>}

\* The names of the enumeration lists and of the option inventories.
EnumeratedNames ==
    IF ~IsObject(raw) THEN {}
    ELSE StringsIn(Prop(raw, "datasets")) \cup StringsIn(Prop(raw, "recipes"))
         \cup StringsIn(Prop(raw, "folders"))
         \cup InventoryNames(options.allDatasetNames)
         \cup InventoryNames(options.allRecipeNames)
         \cup InventoryNames(options.allFolderIds)

\* Every name under which the input declares a node: map keys, refs, id
\* fields, enumeration and inventory entries.
DeclaredNames ==
    {RawEntries[i].key : i \in ObjectEntryIndexes}
    \cup {RawEntries[i].value.ref.s :
            i \in {j \in ObjectEntryIndexes : IsNonEmptyString(RawEntries[j].value.ref)}}
    \cup {RawEntries[i].value.id.s :
            i \in {j \in ObjectEntryIndexes : IsNonEmptyString(RawEntries[j].value.id)}}
    \cup EnumeratedNames

NodeIdsOf(map) == {map.nodes[i].id : i \in 1..Len(map.nodes)}
IdsIn(list) == {list[i] : i \in 1..Len(list)}
HasReturned == normalized # NoMap
HasTruncated == truncated # NoTruncation

(* ------------------------------------------------------------------ *)
(* Properties                                                         *)
(* ------------------------------------------------------------------ *)
EdgeEndpointsAreNodes(map) ==
    \A i \in 1..Len(map.edges) :
        /\ map.edges[i].from \in NodeIdsOf(map)
        /\ map.edges[i].to \in NodeIdsOf(map)

\* C1: every edge of the map returned by normalizeFlowGraph has its `from`
\* and its `to` among the ids of the returned nodes, also when an endpoint
\* was only ever mentioned in a predecessors/successors list.
C1_NoDanglingEdge == HasReturned => EdgeEndpointsAreNodes(normalized)

\* C1 witness: "z" is declared nowhere, is mentioned in an adjacency list and
\* is the endpoint of a returned edge.
C1_Witness ==
    /\ HasReturned
    /\ IsObject(raw)
    /\ IdZ \notin DeclaredNames
    /\ \E i \in 1..Len(normalized.edges) :
          normalized.edges[i].from = IdZ \/ normalized.edges[i].to = IdZ

\* C2: every edge of the map returned by truncateFlowMap has both endpoints
\* among the retained nodes, for caps >= 1 or undefined.
C2_TruncatedEdgesWithinNodes == HasTruncated => EdgeEndpointsAreNodes(truncated.map)

\* C2 witness: a node was cut, an edge of the input map touched it, and an
\* edge between retained nodes is still there.
C2_Witness ==
    /\ HasTruncated
    /\ Len(truncated.map.edges) >= 1
    /\ \E i \in 1..Len(normalized.edges) :
          normalized.edges[i].from \notin NodeIdsOf(truncated.map)
          \/ normalized.edges[i].to \notin NodeIdsOf(truncated.map)

\* C3: in the map returned by normalizeFlowGraph no two nodes share an id and
\* no two edges share the ordered pair (from, to).
C3_NoDuplicates ==
    HasReturned =>
        /\ \A i, j \in 1..Len(normalized.nodes) :
              normalized.nodes[i].id = normalized.nodes[j].id => i = j
        /\ \A i, j \in 1..Len(normalized.edges) :
              (normalized.edges[i].from = normalized.edges[j].from
               /\ normalized.edges[i].to = normalized.edges[j].to) => i = j

\* C3 witness: entry "c" lists "a" as successor, entry "a" lists "c" as
\* predecessor, and the map has the one edge c -> a.
C3_Witness ==
    /\ HasReturned
    /\ Len(RawEntries) >= 2
    /\ RawEntries[1].value.ref = Undefined
    /\ IdA \in StringsIn(RawEntries[1].value.successors)
    /\ IdC \in StringsIn(RawEntries[2].value.predecessors)
    /\ Len(normalized.edges) = 1
    /\ normalized.edges[1].from = IdC
    /\ normalized.edges[1].to = IdA

RootsAndLeavesByEdges(map) ==
    /\ IdsIn(map.roots) \subseteq NodeIdsOf(map)
    /\ IdsIn(map.leaves) \subseteq NodeIdsOf(map)
    /\ \A id \in NodeIdsOf(map) :
          /\ id \in IdsIn(map.roots)
                <=> ~(\E i \in 1..Len(map.edges) : map.edges[i].to = id)
          /\ id \in IdsIn(map.leaves)
                <=> ~(\E i \in 1..Len(map.edges) : map.edges[i].from = id)

\* C4: in the map returned by normalizeFlowGraph and in the map returned by
\* truncateFlowMap, a node id is in roots iff no edge of that map has it as
\* `to`, and in leaves iff no edge of that map has it as `from`.
C4_RootsLeavesFromOwnEdges ==
    /\ HasReturned => RootsAndLeavesByEdges(normalized)
    /\ HasTruncated => RootsAndLeavesByEdges(truncated.map)

\* C4 witness: the normalized map is a pure cycle (no roots, no leaves) and
\* the truncated map retains a node that lost its inbound edge and is a root.
C4_Witness ==
    /\ HasTruncated
    /\ Len(normalized.edges) >= 2
    /\ normalized.roots = <<>>
    /\ normalized.leaves = <<>>
    /\ truncated.map.roots # <<>>

Min(a, b) == IF a < b THEN a ELSE b

\* C5: with caps N >= 1 and M >= 1, truncateFlowMap retains exactly the
\* first min(N, |nodes|) nodes of the input list in their order and returns
\* at most M edges.
C5_FirstNodesAndEdgeCap ==
    (HasTruncated /\ maxNodes # Undefined /\ maxEdges # Undefined) =>
        /\ truncated.map.nodes
              = SubSeq(normalized.nodes, 1, Min(maxNodes.n, Len(normalized.nodes)))
        /\ Len(truncated.map.nodes) <= maxNodes.n
        /\ Len(truncated.map.edges) <= maxEdges.n

\* C5 witness: both caps bind: nodes were cut, and more edges than maxEdges
\* join the retained nodes.
C5_Witness ==
    /\ HasTruncated
    /\ maxNodes # Undefined
    /\ maxEdges # Undefined
    /\ maxNodes.n < Len(normalized.nodes)
    /\ Len(truncated.map.edges) = maxEdges.n
    /\ Cardinality({i \in 1..Len(normalized.edges) :
            /\ normalized.edges[i].from \in NodeIdsOf(truncated.map)
            /\ normalized.edges[i].to \in NodeIdsOf(truncated.map)}) > maxEdges.n

\* C6: the summary's before-counts are the lengths of the input lists, its
\* after-counts the lengths of the returned lists, and `truncated` is true
\* iff a count shrank.
C6_SummaryCounts ==
    HasTruncated =>
        /\ truncated.truncation.nodeCountBefore = Len(normalized.nodes)
        /\ truncated.truncation.edgeCountBefore = Len(normalized.edges)
        /\ truncated.truncation.nodeCountAfter = Len(truncated.map.nodes)
        /\ truncated.truncation.edgeCountAfter = Len(truncated.map.edges)
        /\ truncated.truncation.truncated
              <=> (truncated.truncation.nodeCountAfter < truncated.truncation.nodeCountBefore
                   \/ truncated.truncation.edgeCountAfter
                        < truncated.truncation.edgeCountBefore)

\* C6 witness: only the edge count shrank.
C6_Witness ==
    /\ HasTruncated
    /\ truncated.truncation.truncated
    /\ Len(truncated.map.nodes) = Len(normalized.nodes)
    /\ Len(truncated.map.edges) < Len(normalized.edges)

PlaceholderTemplate == "Added placeholder node for \"{id}\" referenced by an edge."

\* Exactly one node with this id, of kind "other", and exactly one
\* placeholder warning naming it.
OnePlaceholderFor(id) ==
    /\ Cardinality({i \in 1..Len(normalized.nodes) : normalized.nodes[i].id = id}) = 1
    /\ \A i \in 1..Len(normalized.nodes) :
          normalized.nodes[i].id = id => normalized.nodes[i].kind = "other"
    /\ Cardinality({i \in 1..Len(normalized.warnings) :
            /\ normalized.warnings[i].template = PlaceholderTemplate
            /\ normalized.warnings[i].key = id}) = 1

\* C7 as stated: every adjacency reference of the input that no declaration
\* names gets exactly one "other" node and exactly one placeholder warning.
C7_EveryUndeclaredRefHasPlaceholder ==
    HasReturned => \A id \in AllAdjacencyRefs \ DeclaredNames : OnePlaceholderFor(id)

\* C7 amended: every reference in an adjacency list that a node finally
\* holds (the lists of the last declaration of each canonical id), and that
\* no declaration names, gets exactly one "other" node and exactly one
\* placeholder warning, however many edges reference it.
C7_RetainedUndeclaredRefHasPlaceholder ==
    HasReturned => \A id \in RetainedAdjacencyRefs \ DeclaredNames : OnePlaceholderFor(id)

\* C7 witness: two retained references name the undeclared "z", and the map
\* has one node "z".
C7_Witness ==
    /\ HasReturned
    /\ IsObject(raw)
    /\ IdZ \notin DeclaredNames
    /\ Cardinality({i \in 1..Len(normalized.edges) :
            normalized.edges[i].from = IdZ \/ normalized.edges[i].to = IdZ}) = 2
    /\ OnePlaceholderFor(IdZ)

\* C8: when raw is not a non-null, non-array object, the result is the empty
\* map with the given projectKey and the single warning, whatever options
\* holds.
C8_NotAnObjectResult ==
    (HasReturned /\ ~IsObject(raw)) =>
        normalized =
            [projectKey |-> projectKey, nodes |-> <<>>, edges |-> <<>>,
             roots |-> <<>>, leaves |-> <<>>,
             stats |-> [nodeCount |-> 0, edgeCount |-> 0, datasets |-> 0,
                        recipes |-> 0, roots |-> 0, leaves |-> 0],
             warnings |-> <<[template |-> "Flow graph response was not an object.",
                             scope |-> "", key |-> <<>>, field |-> "",
                             counts |-> <<>>]>>]

\* C8 witness: raw is an array and options carries inventories.
C8_Witness ==
    /\ HasReturned
    /\ raw.t = "array"
    /\ options.allDatasetNames # Undefined

SortedIds(list) ==
    \A i, j \in 1..Len(list) : i < j => localeCompare(list[i], list[j]) <= 0

\* C9: nodes ascend by id, edges ascend by (from, to, relation), roots and
\* leaves ascend by id, all under localeCompare.
C9_SortedOutput ==
    HasReturned =>
        /\ \A i, j \in 1..Len(normalized.nodes) :
              i < j => localeCompare(normalized.nodes[i].id, normalized.nodes[j].id) <= 0
        /\ \A i, j \in 1..Len(normalized.edges) :
              i < j =>
                LET a == normalized.edges[i]
                    b == normalized.edges[j]
                IN  \/ localeCompare(a.from, b.from) < 0
                    \/ /\ localeCompare(a.from, b.from) = 0
                       /\ localeCompare(a.to, b.to) < 0
                    \/ /\ localeCompare(a.from, b.from) = 0
                       /\ localeCompare(a.to, b.to) = 0
                       /\ relationCompare(a.relation, b.relation) <= 0
        /\ SortedIds(normalized.roots)
        /\ SortedIds(normalized.leaves)

\* C9 witness: three nodes declared in the order c, a, b and two edges that
\* were created in descending order.
C9_Witness ==
    /\ pc = "returned"
    /\ Len(normalized.nodes) >= 3
    /\ nodeMap[1].id = IdC
    /\ Len(edgeMap) = 2
    /\ localeCompare(edgeMap[1].from, edgeMap[2].from) > 0
    /\ Len(normalized.roots) >= 2

DistinctCanonicalIds ==
    \A i, j \in ObjectEntryIndexes :
        CanonicalIdOf(RawEntries[i]) = CanonicalIdOf(RawEntries[j]) => i = j

\* C11: two raw graphs that differ only in the order of the entries of
\* `nodes` and of the items of the enumeration lists, and in which no two
\* entries resolve to the same canonical id, give the same nodes, edges,
\* roots and leaves.
C11_OrderIndependent ==
    (calls = 2 /\ pc = "returned" /\ DistinctCanonicalIds) =>
        /\ normalized.nodes = previous.nodes
        /\ normalized.edges = previous.edges
        /\ normalized.roots = previous.roots
        /\ normalized.leaves = previous.leaves

\* The names of each category: the raw list and the option inventory.
DatasetNames ==
    StringsIn(Prop(raw, "datasets")) \cup InventoryNames(options.allDatasetNames)
RecipeNames ==
    StringsIn(Prop(raw, "recipes")) \cup InventoryNames(options.allRecipeNames)
FolderNames ==
    StringsIn(Prop(raw, "folders")) \cup InventoryNames(options.allFolderIds)

\* The names under which the entries of raw.nodes declare their nodes.
EntryNames ==
    {RawEntries[i].key : i \in ObjectEntryIndexes}
    \cup {RawEntries[i].value.ref.s :
            i \in {j \in ObjectEntryIndexes : IsNonEmptyString(RawEntries[j].value.ref)}}
    \cup {RawEntries[i].value.id.s :
            i \in {j \in ObjectEntryIndexes : IsNonEmptyString(RawEntries[j].value.id)}}

NodeWithId(map, id) == map.nodes[CHOOSE i \in 1..Len(map.nodes) : map.nodes[i].id = id]

HasNoEdges(map, id) ==
    \A i \in 1..Len(map.edges) : map.edges[i].from # id /\ map.edges[i].to # id

\* C12: every non-empty string of raw.datasets / recipes / folders or of
\* the option inventories is the id of an output node; a name that only one
\* category declares, and no entry of raw.nodes, has that category's kind,
\* and if moreover no adjacency list mentions it the node has no edges and is
\* in both roots and leaves.
C12_EnumeratedNamesAreNodes ==
    (HasReturned /\ IsObject(raw)) =>
        /\ EnumeratedNames \subseteq NodeIdsOf(normalized)
        /\ \A id \in DatasetNames \ (RecipeNames \cup FolderNames \cup EntryNames) :
              NodeWithId(normalized, id).kind = "dataset"
        /\ \A id \in RecipeNames \ (DatasetNames \cup FolderNames \cup EntryNames) :
              NodeWithId(normalized, id).kind = "recipe"
        /\ \A id \in FolderNames \ (DatasetNames \cup RecipeNames \cup EntryNames) :
              NodeWithId(normalized, id).kind = "folder"
        /\ \A id \in EnumeratedNames \ (EntryNames \cup AllAdjacencyRefs) :
              /\ HasNoEdges(normalized, id)
              /\ id \in IdsIn(normalized.roots)
              /\ id \in IdsIn(normalized.leaves)

\* C12 witness: raw.nodes mentions neither "b" nor "d"; the recipe inventory
\* names "b", the folder list names "d", both are isolated nodes of their
\* kind, while the enumerated dataset "z" is the endpoint of an edge.
C12_Witness ==
    /\ HasReturned
    /\ IdB \in InventoryNames(options.allRecipeNames) \ (EntryNames \cup AllAdjacencyRefs)
    /\ IdD \in StringsIn(Prop(raw, "folders")) \ (EntryNames \cup AllAdjacencyRefs)
    /\ NodeWithId(normalized, IdB).kind = "recipe"
    /\ NodeWithId(normalized, IdD).kind = "folder"
    /\ IdB \in IdsIn(normalized.roots) \cap IdsIn(normalized.leaves)
    /\ IdZ \in DatasetNames
    /\ ~HasNoEdges(normalized, IdZ)

SameLetter(c, d) ==
    \/ c = d
    \/ \E j \in 1..Len(LowerChars) : {c, d} = {LowerChars[j], UpperChars[j]}

\* The string contains the word, letter case ignored.
ContainsIgnoringCase(s, word) ==
    \E k \in 0..(Len(s) - Len(word)) :
        \A j \in 1..Len(word) : SameLetter(s[k + j], word[j])

\* The subtype a raw node object declares.
DeclaredSubtype(value) ==
    IF IsNonEmptyString(value.subType) THEN value.subType
    ELSE IF IsNonEmptyString(value.subtype) THEN value.subtype
    ELSE IF value.type.t = "string" /\ ContainsIgnoringCase(value.type.s, IMPLICIT_RECIPE)
    THEN Str(<<"i","m","p","l","i","c","i","t">>)
    ELSE Undefined

\* The entries of raw.nodes that are the only entry of their canonical id.
DeclaredOnceIndexes ==
    {i \in ObjectEntryIndexes :
        \A j \in ObjectEntryIndexes :
            CanonicalIdOf(RawEntries[j]) = CanonicalIdOf(RawEntries[i]) => j = i}

\* C13: the node of a raw entry declared once has as subtype its non-empty
\* subType, else its non-empty subtype, else "implicit" when its type tag
\* contains IMPLICIT_RECIPE in any letter case, else none; with type
\* RUNNABLE_IMPLICIT_RECIPE and no subType it is a recipe of subtype
\* "implicit".
C13_SubtypeOfNode ==
    HasReturned =>
        \A i \in DeclaredOnceIndexes :
            LET value == RawEntries[i].value
                node == NodeWithId(normalized, CanonicalIdOf(RawEntries[i]))
            IN  /\ node.subtype = DeclaredSubtype(value)
                /\ (/\ value.type = Str(RUNNABLE_IMPLICIT_RECIPE)
                    /\ value.subType = Undefined
                    /\ value.subtype = Undefined)
                      => (node.kind = "recipe"
                          /\ node.subtype = Str(<<"i","m","p","l","i","c","i","t">>))

\* C13 witness: entry "c" is declared once with the lower-case implicit
\* recipe tag, a non-string subType and an empty subtype, and entry "a" is
\* declared once with a subType and a subtype.
C13_Witness ==
    /\ HasReturned
    /\ DeclaredOnceIndexes = {1, 2}
    /\ RawEntries[1].value.type = Str(runnable_implicit_recipe)
    /\ RawEntries[1].value.subType = Num
    /\ NodeWithId(normalized, IdC).subtype = Str(<<"i","m","p","l","i","c","i","t">>)
    /\ RawEntries[2].value.subType = Str(<<"x">>)
    /\ RawEntries[2].value.subtype = Str(<<"y">>)
    /\ NodeWithId(normalized, IdA).subtype = Str(<<"x">>)

FriendlyName(id) ==
    IF options.folderNamesById # Undefined /\ id \in DOMAIN options.folderNamesById.map
       /\ IsNonEmptyString(options.folderNamesById.map[id])
    THEN options.folderNamesById.map[id]
    ELSE Undefined

\* What one entry of raw.nodes declares about its node.
EntryDeclaration(entry) ==
    LET value == entry.value
        kind == inferKind(asString(value.type))
        ownName == IF IsNonEmptyString(value.name) THEN value.name
                   ELSE IF IsNonEmptyString(value.label) THEN value.label
                   ELSE Str(CanonicalIdOf(entry))
    IN  [kind |-> kind,
         name |-> IF kind = "folder" /\ FriendlyName(CanonicalIdOf(entry)) # Undefined
                  THEN FriendlyName(CanonicalIdOf(entry)) ELSE ownName,
         subtype |-> DeclaredSubtype(value),
         connection |->
            IF IsNonEmptyString(value.connection) THEN value.connection
            ELSE IF IsObject(value.params) /\ IsNonEmptyString(value.params.connection)
            THEN value.params.connection
            ELSE Undefined]

EnumerationDeclaration(kind, name) ==
    [kind |-> kind, name |-> name, subtype |-> Undefined, connection |-> Undefined]

\* The declarations of one id in processing order: the entries of raw.nodes
\* in their order, then the dataset, recipe and folder enumerations.
DeclarationsOf(id) ==
    LET entries == SelectSeq(RawEntries,
                             LAMBDA e : IsObject(e.value) /\ CanonicalIdOf(e) = id)
    IN  [k \in 1..Len(entries) |-> EntryDeclaration(entries[k])]
        \o (IF id \in DatasetNames THEN <<EnumerationDeclaration("dataset", Str(id))>>
            ELSE <<>>)
        \o (IF id \in RecipeNames THEN <<EnumerationDeclaration("recipe", Str(id))>>
            ELSE <<>>)
        \o (IF id \in FolderNames
            THEN <<EnumerationDeclaration("folder",
                      IF FriendlyName(id) # Undefined THEN FriendlyName(id) ELSE Str(id))>>
            ELSE <<>>)

Least(S) == CHOOSE k \in S : \A j \in S : k <= j

\* The first non-empty value of a field, else the first declaration's.
FirstNonEmpty(decls, field) ==
    LET set == {k \in 1..Len(decls) : Truthy(decls[k][field])}
    IN  IF set = {} THEN decls[1][field] ELSE decls[Least(set)][field]

FirstNonOtherKind(decls) ==
    LET set == {k \in 1..Len(decls) : decls[k].kind # "other"}
    IN  IF set = {} THEN "other" ELSE decls[Least(set)].kind

CanonicalIds == {CanonicalIdOf(RawEntries[i]) : i \in ObjectEntryIndexes}

\* C14: a canonical id declared more than once (by several entries of
\* raw.nodes, or by an entry and enumeration or inventory lists) has one
\* node whose subtype and connection are the first non-empty ones in
\* processing order, whose name is the first non-empty one unless the folder
\* friendly-name repair applies, and whose kind is the first non-"other"
\* kind declared, or "other" if there is none.
C14_FirstDeclarationWins ==
    HasReturned =>
        \A id \in CanonicalIds \cup EnumeratedNames :
            LET decls == DeclarationsOf(id)
                node == NodeWithId(normalized, id)
                name == FirstNonEmpty(decls, "name")
            IN  Len(decls) >= 2 =>
                    /\ Cardinality({i \in 1..Len(normalized.nodes) :
                                        normalized.nodes[i].id = id}) = 1
                    /\ node.kind = FirstNonOtherKind(decls)
                    /\ node.subtype = FirstNonEmpty(decls, "subtype")
                    /\ node.connection = FirstNonEmpty(decls, "connection")
                    /\ \/ node.name = name
                       \/ /\ node.kind = "folder"
                          /\ FriendlyName(id) # Undefined
                          /\ ~Truthy(name) \/ name = Str(id)

\* C14 witness: "a" is declared by entry "c" (ref "a", no type tag, no
\* attributes), then by entry "a" (a dataset with subType and connection),
\* then by the recipe and folder lists; its node is a dataset with the second
\* declaration's subtype and connection and the first declaration's name.
C14_Witness ==
    /\ HasReturned
    /\ Len(DeclarationsOf(IdA)) >= 4
    /\ DeclarationsOf(IdA)[1].kind = "other"
    /\ DeclarationsOf(IdA)[1].subtype = Undefined
    /\ DeclarationsOf(IdA)[2].kind = "dataset"
    /\ IdA \in RecipeNames \cap FolderNames
    /\ NodeWithId(normalized, IdA).kind = "dataset"
    /\ NodeWithId(normalized, IdA).subtype = Str(<<"x">>)
    /\ NodeWithId(normalized, IdA).connection = Str(<<"p">>)
    /\ NodeWithId(normalized, IdA).name = Str(IdA)

CountWarnings(map, w) ==
    Cardinality({i \in 1..Len(map.warnings) : map.warnings[i] = w})

IsDefined(v) == v # Undefined
IsArray(v) == v.t = "array"
\* The items of an array that are not non-empty strings.
BadItemCount(v) ==
    IF IsArray(v)
    THEN Cardinality({k \in 1..Len(v.items) : ~IsNonEmptyString(v.items[k])})
    ELSE 0

\* A list field is reported once when it is not an array, and once per item
\* that is not a non-empty string when it is.
FieldAccounted(map, v, ctx) ==
    /\ CountWarnings(map, NonArrayWarning(ctx))
          = (IF IsDefined(v) /\ ~IsArray(v) THEN 1 ELSE 0)
    /\ CountWarnings(map, NonStringItemWarning(ctx)) = BadItemCount(v)

EnumerationFields == {"datasets", "recipes", "folders"}

\* In the returned map a non-object `nodes`, each non-object node entry,
\* each non-array list field and each item that is not a non-empty string is
\* skipped and reported by its warning, each dangling reference is patched
\* by a node, the well-formed entries and enumeration items are nodes, and
\* well-formed references still give edges.
MalformedPartsAccounted ==
    (HasReturned /\ IsObject(raw)) =>
        /\ DOMAIN normalized
              = {"projectKey", "nodes", "edges", "stats", "roots", "leaves", "warnings"}
        /\ CountWarnings(normalized, NodesNotObjectWarning)
              = (IF IsDefined(Prop(raw, "nodes")) /\ ~IsObject(Prop(raw, "nodes"))
                 THEN 1 ELSE 0)
        /\ \A i \in 1..Len(RawEntries) :
              LET entry == RawEntries[i] IN
              IF ~IsObject(entry.value)
              THEN /\ CountWarnings(normalized, NodeNotObjectWarning(entry.key)) = 1
                   /\ entry.key \in NodeIdsOf(normalized)
                        => entry.key \in CanonicalIds \cup EnumeratedNames
                                          \cup AllAdjacencyRefs
              ELSE /\ CountWarnings(normalized, NodeNotObjectWarning(entry.key)) = 0
                   /\ CanonicalIdOf(entry) \in NodeIdsOf(normalized)
                   /\ FieldAccounted(normalized, entry.value.predecessors,
                                     NodeContext(entry.key, "predecessors"))
                   /\ FieldAccounted(normalized, entry.value.successors,
                                     NodeContext(entry.key, "successors"))
        /\ \A field \in EnumerationFields :
              /\ FieldAccounted(normalized, Prop(raw, field), RootContext(field))
              /\ StringsIn(Prop(raw, field)) \subseteq NodeIdsOf(normalized)
        /\ RetainedAdjacencyRefs \cap DeclaredNames # {} => normalized.edges # <<>>
        /\ \A id \in RetainedAdjacencyRefs \ DeclaredNames :
              /\ id \in NodeIdsOf(normalized)
              /\ CountWarnings(normalized, PlaceholderWarning(id)) = 1

IsPrefix(list, longer) ==
    Len(list) <= Len(longer) /\ SubSeq(longer, 1, Len(list)) = list

\* The pass that runs next yields the maps of the call and keeps the
\* warnings pushed so far.
NextPassKeepsWarnings ==
    /\ pc = "nodes" => IsPrefix(warnings, nodesPass(Builder, asRecord(raw), options).warnings)
    /\ pc = "enumerations"
          => IsPrefix(warnings, enumerationsPass(Builder, asRecord(raw), options).warnings)
    /\ pc = "rename" => Len(renameFolders(nodeMap, options)) = Len(nodeMap)
    /\ pc = "edges" => IsPrefix(warnings, edgesPass(Builder).warnings)
    /\ pc = "assemble" => assembleFlowMap(projectKey, Builder).warnings = warnings

\* C15: for every object input, malformed parts included, each pass of the
\* call yields its result and keeps the warnings pushed so far, and in the
\* returned map each malformed part is skipped or patched and recorded as a
\* warning while the well-formed parts are processed.
C15_MalformedPartsSkippedWithWarnings ==
    /\ NextPassKeepsWarnings
    /\ MalformedPartsAccounted

\* C15 witness: entry "c" has a non-array predecessors field and a
\* successors array with a dangling reference and an empty string, datasets
\* holds a number next to a name, recipes is not an array, and the returned
\* map has the nodes "a", "c", "z", an edge and five warnings.
C15_Witness ==
    /\ HasReturned
    /\ Len(RawEntries) = 2
    /\ IsObject(RawEntries[1].value)
    /\ RawEntries[1].value.predecessors = Num
    /\ RawEntries[1].value.successors = Arr(<<Str(IdZ), Str(<<>>)>>)
    /\ Prop(raw, "datasets") = Arr(<<Str(<<>>), Str(IdA)>>)
    /\ Prop(raw, "recipes") = Str(IdA)
    /\ NodeIdsOf(normalized) = {IdA, IdC, IdZ}
    /\ Len(normalized.edges) >= 1
    /\ Len(normalized.warnings) = 5

IsStringList(v) == ~IsDefined(v) \/ (IsArray(v) /\ BadItemCount(v) = 0)

\* raw is an object, `nodes` is an object whose values are objects, every
\* list field is absent or an array of non-empty strings, and every
\* adjacency reference names a declared node.
WellFormedInput ==
    /\ IsObject(raw)
    /\ IsObject(Prop(raw, "nodes"))
    /\ \A i \in 1..Len(RawEntries) :
          /\ IsObject(RawEntries[i].value)
          /\ IsStringList(RawEntries[i].value.predecessors)
          /\ IsStringList(RawEntries[i].value.successors)
    /\ \A field \in EnumerationFields : IsStringList(Prop(raw, field))
    /\ AllAdjacencyRefs \subseteq DeclaredNames

\* C17: well-formed input gives no warnings, and the empty graph without
\* option inventories gives no nodes, no edges, nodeCount 0, edgeCount 0 and
\* no warnings.
C17_WellFormedNoWarnings ==
    HasReturned =>
        /\ WellFormedInput => normalized.warnings = <<>>
        /\ (raw = EmptyGraphRaw /\ options = NoOptions) =>
              /\ normalized.nodes = <<>>
              /\ normalized.edges = <<>>
              /\ normalized.stats.nodeCount = 0
              /\ normalized.stats.edgeCount = 0
              /\ normalized.warnings = <<>>

\* C17 witness: a well-formed graph in which "c" lists the enumerated "z"
\* and "a" as predecessors and "a" lists "c" as successor returns three
\* nodes, edges and no warnings.
C17_Witness ==
    /\ HasReturned
    /\ WellFormedInput
    /\ Len(RawEntries) = 2
    /\ StringsIn(RawEntries[1].value.predecessors) = {IdA, IdZ}
    /\ StringsIn(RawEntries[2].value.successors) = {IdC}
    /\ Len(normalized.nodes) = 3
    /\ Len(normalized.edges) = 2
    /\ normalized.warnings = <<>>

\* C16: the map action always calls truncateFlowMap with numeric caps: the
\* default 300 / 600 where the caller omitted the argument, the caller's
\* value where it was given; the reported truncation.maxNodes and
\* truncation.maxEdges are those caps, never null, and the returned lists
\* respect them.
C16_MapActionAppliesCaps ==
    (HasTruncated /\ requested # NoArguments) =>
        /\ maxNodes = (IF requested.maxNodes = Undefined THEN Cap(300)
                       ELSE requested.maxNodes)
        /\ maxEdges = (IF requested.maxEdges = Undefined THEN Cap(600)
                       ELSE requested.maxEdges)
        /\ truncated.truncation.maxNodes = maxNodes
        /\ truncated.truncation.maxEdges = maxEdges
        /\ truncated.truncation.maxNodes # Null
        /\ truncated.truncation.maxEdges # Null
        /\ Len(truncated.map.nodes) <= maxNodes.n
        /\ Len(truncated.map.edges) <= maxEdges.n

\* C16 witness: the caller gave maxNodes and omitted maxEdges; the summary
\* reports the given value and 600, and nodes were cut.
C16_Witness ==
    /\ HasTruncated
    /\ requested # NoArguments
    /\ requested.maxNodes # Undefined
    /\ requested.maxEdges = Undefined
    /\ truncated.truncation.maxNodes = requested.maxNodes
    /\ truncated.truncation.maxEdges = Cap(600)
    /\ truncated.truncation.truncated
    /\ options.allDatasetNames # Arr(<<>>)

StatsOfOwnContent(map) ==
    /\ map.stats.nodeCount = Len(map.nodes)
    /\ map.stats.edgeCount = Len(map.edges)
    /\ map.stats.datasets
          = Cardinality({i \in 1..Len(map.nodes) : map.nodes[i].kind = "dataset"})
    /\ map.stats.recipes
          = Cardinality({i \in 1..Len(map.nodes) : map.nodes[i].kind = "recipe"})
    /\ map.stats.roots = Len(map.roots)
    /\ map.stats.leaves = Len(map.leaves)

\* C18: in the map returned by normalizeFlowGraph and in the map returned
\* by truncateFlowMap, stats holds the counts of that map's own nodes,
\* edges, dataset nodes, recipe nodes, roots and leaves.
C18_StatsOfOwnContent ==
    /\ HasReturned => StatsOfOwnContent(normalized)
    /\ HasTruncated => StatsOfOwnContent(truncated.map)

\* C18 witness: truncation cut a dataset node and an edge and changed the
\* number of roots, so every count but recipes differs from the input map's.
C18_Witness ==
    /\ HasTruncated
    /\ truncated.map.stats.nodeCount < normalized.stats.nodeCount
    /\ truncated.map.stats.edgeCount < normalized.stats.edgeCount
    /\ truncated.map.stats.datasets < normalized.stats.datasets
    /\ truncated.map.stats.roots # normalized.stats.roots
    /\ truncated.map.stats.recipes >= 1

\* The edges of the input map whose two endpoints are retained nodes, in
\* input order.
EdgesBetweenRetained ==
    SelectSeq(normalized.edges,
              LAMBDA e : e.from \in NodeIdsOf(truncated.map)
                         /\ e.to \in NodeIdsOf(truncated.map))

\* C19: the edges truncateFlowMap returns are the first min(M, k) of the k
\* input edges whose endpoints are both retained, in input order (all k
\* when maxEdges is undefined).
C19_FilterThenCap ==
    HasTruncated =>
        truncated.map.edges
            = SubSeq(EdgesBetweenRetained, 1,
                     IF maxEdges = Undefined THEN Len(EdgesBetweenRetained)
                     ELSE Min(maxEdges.n, Len(EdgesBetweenRetained)))

\* C19 witness: two input edges, caps N and M = 1, and no edge left: fewer
\* than min(M, edgeCountBefore).
C19_Witness ==
    /\ HasTruncated
    /\ maxNodes # Undefined
    /\ maxEdges = Cap(1)
    /\ Len(normalized.nodes) >= 3
    /\ Len(normalized.edges) = 2
    /\ truncated.map.edges = <<>>
    /\ Len(truncated.map.nodes) = 2

HasEdge(map, from, to) ==
    \E k \in 1..Len(map.edges) : map.edges[k].from = from /\ map.edges[k].to = to

\* C20: for every node of the node table, every reference p of its final
\* predecessors list gives an output edge from the node p resolves to, to
\* that node, and every reference s of its final successors list gives an
\* output edge from that node to the node s resolves to.
C20_AdjacencyBecomesEdges ==
    (pc = "returned" /\ IsObject(raw)) =>
        \A i \in 1..Len(nodeMap) :
            /\ \A k \in 1..Len(nodeMap[i].predecessors) :
                  HasEdge(normalized, resolveAlias(aliasMap, nodeMap[i].predecessors[k]),
                          nodeMap[i].id)
            /\ \A k \in 1..Len(nodeMap[i].successors) :
                  HasEdge(normalized, nodeMap[i].id,
                          resolveAlias(aliasMap, nodeMap[i].successors[k]))

\* The forms under which an entry of raw.nodes names its node: its map key,
\* its ref and its `id` field.
FormsOf(entry) ==
    {entry.key}
    \cup (IF IsNonEmptyString(entry.value.ref) THEN {entry.value.ref.s} ELSE {})
    \cup (IF IsNonEmptyString(entry.value.id) THEN {entry.value.id.s} ELSE {})

\* The references of the final adjacency lists of the node table.
FinalPredecessorRefs(node) == {node.predecessors[k] : k \in 1..Len(node.predecessors)}
FinalSuccessorRefs(node) == {node.successors[k] : k \in 1..Len(node.successors)}

\* C21: for every entry of raw.nodes, its key, its ref and its `id` field
\* resolve, when the edges are built, to the entry's canonical id; a
\* reference of a final adjacency list written in one of these forms gives
\* an edge whose endpoint is that canonical node, no placeholder warning
\* names the form, and every output node is a canonical id, an enumerated
\* name or an undeclared reference.
C21_DeclaredFormsResolveToCanonicalId ==
    (pc = "returned" /\ IsObject(raw)) =>
        /\ \A i \in ObjectEntryIndexes :
              \A form \in FormsOf(RawEntries[i]) :
                 /\ resolveAlias(aliasMap, form) = CanonicalIdOf(RawEntries[i])
                 /\ CountWarnings(normalized, PlaceholderWarning(form)) = 0
                 /\ \A n \in 1..Len(nodeMap) :
                       /\ form \in FinalPredecessorRefs(nodeMap[n])
                             => HasEdge(normalized, CanonicalIdOf(RawEntries[i]),
                                        nodeMap[n].id)
                       /\ form \in FinalSuccessorRefs(nodeMap[n])
                             => HasEdge(normalized, nodeMap[n].id,
                                        CanonicalIdOf(RawEntries[i]))
        /\ NodeIdsOf(normalized)
              \subseteq CanonicalIds \cup EnumeratedNames
                        \cup (RetainedAdjacencyRefs \ DeclaredNames)

\* The ids named by the placeholder warnings of a warnings list.
PlaceholderIds(list) ==
    {list[k].key : k \in {j \in 1..Len(list) : list[j].template = PlaceholderTemplate}}

\* C22: no edge is resolved and no placeholder is made before the node
\* table and the alias table are complete; in the returned map no
\* placeholder warning names an id that the input declares (in an entry
\* declared later than the referencing one, in an enumeration list or in an
\* option inventory), every declared reference resolves to a declared node,
\* and the nodes that are not placeholders are exactly the declared ones.
C22_PlaceholdersOnlyForUndeclaredIds ==
    /\ pc \in {"nodes", "enumerations", "rename", "edges"}
          => edgeMap = <<>> /\ PlaceholderIds(warnings) = {}
    /\ (pc = "returned" /\ IsObject(raw)) =>
          /\ PlaceholderIds(normalized.warnings) \cap DeclaredNames = {}
          /\ \A ref \in AllAdjacencyRefs \cap DeclaredNames :
                resolveAlias(aliasMap, ref) \in CanonicalIds \cup EnumeratedNames
          /\ NodeIdsOf(normalized) \ PlaceholderIds(normalized.warnings)
                = CanonicalIds \cup EnumeratedNames
          /\ PlaceholderIds(normalized.warnings) \subseteq NodeIdsOf(normalized)

\* C22 witness: entry "c" references "a", declared after it, "d", declared
\* only in the folder inventory, and "z", declared only in raw.datasets; the
\* map has the three edges and no placeholder warning.
C22_Witness ==
    /\ pc = "returned"
    /\ RawEntries[1].key = IdC
    /\ RawEntries[2].key = IdA
    /\ RawEntries[2].value.ref = Undefined
    /\ AdjacencyRefsOf(RawEntries[1]) = {IdA, IdD, IdZ}
    /\ IdD \in InventoryNames(options.allFolderIds)
    /\ IdD \notin EntryNames
    /\ IdZ \in StringsIn(Prop(raw, "datasets"))
    /\ IdZ \notin EntryNames
    /\ Len(normalized.edges) = 3
    /\ PlaceholderIds(normalized.warnings) = {}

\* The non-empty strings of an array value, in their order.
StringList(v) ==
    IF IsArray(v)
    THEN LET kept == SelectSeq(v.items, IsNonEmptyString)
         IN  [k \in 1..Len(kept) |-> kept[k].s]
    ELSE <<>>

\* The edge is one that the final adjacency lists of some declaration ask
\* for.
EdgeOfRetainedList(edge) ==
    \E i \in LastDeclarationIndexes :
        LET entry == RawEntries[i] IN
        \/ /\ edge.to = CanonicalIdOf(entry)
           /\ \E p \in StringsIn(entry.value.predecessors) :
                 edge.from = resolveAlias(aliasMap, p)
        \/ /\ edge.from = CanonicalIdOf(entry)
           /\ \E s \in StringsIn(entry.value.successors) :
                 edge.to = resolveAlias(aliasMap, s)

\* C23: the node of each canonical id holds the predecessors and the
\* successors of the last entry that resolves to it, and nothing of an
\* earlier one; every output edge comes from such a final list; and the
\* warnings of coercing the lists of every entry, the earlier ones
\* included, are in the returned warnings.
C23_LastDeclarationReplacesAdjacency ==
    (pc = "returned" /\ IsObject(raw)) =>
        /\ \A i \in LastDeclarationIndexes :
              LET node == GetNode(nodeMap, CanonicalIdOf(RawEntries[i])) IN
              /\ node.predecessors = StringList(RawEntries[i].value.predecessors)
              /\ node.successors = StringList(RawEntries[i].value.successors)
        /\ \A k \in 1..Len(normalized.edges) : EdgeOfRetainedList(normalized.edges[k])
        /\ \A i \in ObjectEntryIndexes :
              /\ FieldAccounted(normalized, RawEntries[i].value.predecessors,
                                NodeContext(RawEntries[i].key, "predecessors"))
              /\ FieldAccounted(normalized, RawEntries[i].value.successors,
                                NodeContext(RawEntries[i].key, "successors"))

\* C23 witness: the entries "c" (ref "a") and "a" both resolve to "a"; only
\* the earlier entry references "z" and "b" and its predecessors hold a
\* number; the later entry has no predecessors and the successor "b": the
\* map has the one edge a -> b, no node "z", and the warning of the earlier
\* entry's list.
C23_Witness ==
    /\ pc = "returned"
    /\ CanonicalIdOf(RawEntries[1]) = IdA
    /\ CanonicalIdOf(RawEntries[2]) = IdA
    /\ RawEntries[1].value.predecessors = Arr(<<Str(IdZ), Num>>)
    /\ RawEntries[2].value.predecessors = Undefined
    /\ StringsIn(RawEntries[2].value.successors) = {IdB}
    /\ RawEntries[1].value.successors = Undefined
    /\ IdZ \notin NodeIdsOf(normalized)
    /\ Len(normalized.edges) = 1
    /\ HasEdge(normalized, IdA, IdB)
    /\ CountWarnings(normalized, NonStringItemWarning(NodeContext(IdC, "predecessors"))) = 1

\* The relation the kinds of the two endpoints call for.
RelationOfKinds(fromKind, toKind) ==
    CASE fromKind \in {"dataset", "folder"} /\ toKind = "recipe" -> "reads"
      [] fromKind = "recipe" /\ toKind \in {"dataset", "folder"} -> "writes"
      [] ~(fromKind \in {"dataset", "folder"} /\ toKind = "recipe")
         /\ ~(fromKind = "recipe" /\ toKind \in {"dataset", "folder"})
         /\ (fromKind = "other" \/ toKind = "other") -> "unknown"
      [] OTHER -> "depends_on"

\* C24: every edge of the returned map has both endpoints in the returned
\* nodes and carries the relation their kinds there call for: dataset or
\* folder -> recipe "reads", recipe -> dataset or folder "writes",
\* otherwise "unknown" if an endpoint is "other", otherwise "depends_on";
\* so every edge that touches a placeholder is "unknown".
C24_RelationFromEndpointKinds ==
    (pc = "returned" /\ IsObject(raw)) =>
        \A k \in 1..Len(normalized.edges) :
            LET edge == normalized.edges[k] IN
            /\ edge.from \in NodeIdsOf(normalized)
            /\ edge.to \in NodeIdsOf(normalized)
            /\ edge.relation = RelationOfKinds(NodeWithId(normalized, edge.from).kind,
                                               NodeWithId(normalized, edge.to).kind)
            /\ ({edge.from, edge.to} \cap PlaceholderIds(normalized.warnings) # {}
                  => edge.relation = "unknown")

\* C24 witness: the recipe "c" has the successors "a", a folder, and "z", a
\* placeholder, and the folder lists "c" as successor: c -> a is "writes",
\* a -> c is "reads", c -> z is "unknown".
C24_Witness ==
    /\ pc = "returned"
    /\ NodeWithId(normalized, IdC).kind = "recipe"
    /\ NodeWithId(normalized, IdA).kind = "folder"
    /\ IdZ \in PlaceholderIds(normalized.warnings)
    /\ \E i, j, k \in 1..Len(normalized.edges) :
          /\ normalized.edges[i] = [from |-> IdC, to |-> IdA, relation |-> "writes"]
          /\ normalized.edges[j] = [from |-> IdA, to |-> IdC, relation |-> "reads"]
          /\ normalized.edges[k] = [from |-> IdC, to |-> IdZ, relation |-> "unknown"]

\* The rank of a relation: reads/writes 3, depends_on 2, unknown 1.
RankOf(relation) ==
    CASE relation \in {"reads", "writes"} -> 3
      [] relation = "depends_on" -> 2
      [] relation = "unknown" -> 1

\* The candidates of the edge loop: one [fromRef, toRef, from, to] per
\* reference of a final adjacency list, with the pair it resolves to.
EdgeCandidates ==
    UNION {
        {[node |-> n, list |-> "predecessors", at |-> k,
          fromRef |-> nodeMap[n].predecessors[k], toRef |-> nodeMap[n].id,
          from |-> resolveAlias(aliasMap, nodeMap[n].predecessors[k]),
          to |-> nodeMap[n].id] : k \in 1..Len(nodeMap[n].predecessors)}
        \cup
        {[node |-> n, list |-> "successors", at |-> k,
          fromRef |-> nodeMap[n].id, toRef |-> nodeMap[n].successors[k],
          from |-> nodeMap[n].id,
          to |-> resolveAlias(aliasMap, nodeMap[n].successors[k])]
            : k \in 1..Len(nodeMap[n].successors)}
        : n \in 1..Len(nodeMap)}

CandidatesOf(from, to) == {c \in EdgeCandidates : c.from = from /\ c.to = to}

\* The relation a candidate asks for, from the kinds of the output nodes.
CandidateRelation(c) ==
    RelationOfKinds(NodeWithId(normalized, c.from).kind, NodeWithId(normalized, c.to).kind)

\* C25: for an ordered pair that several references resolve to, the output
\* keeps at most one edge, and that edge carries a relation of a candidate
\* that no candidate outranks, whatever the order of the candidates; adding
\* any candidate again, whose rank cannot be higher than the stored one,
\* leaves the stored edges as they are.
C25_HighestRankedRelationKept ==
    /\ (pc = "returned" /\ IsObject(raw)) =>
          \A c \in EdgeCandidates :
              Cardinality(CandidatesOf(c.from, c.to)) >= 2 =>
                  LET kept == {k \in 1..Len(normalized.edges) :
                                  /\ normalized.edges[k].from = c.from
                                  /\ normalized.edges[k].to = c.to}
                  IN  /\ Cardinality(kept) <= 1
                      /\ \A k \in kept :
                            /\ \E d \in CandidatesOf(c.from, c.to) :
                                  normalized.edges[k].relation = CandidateRelation(d)
                            /\ \A d \in CandidatesOf(c.from, c.to) :
                                  RankOf(normalized.edges[k].relation)
                                      >= RankOf(CandidateRelation(d))
    /\ pc = "assemble" =>
          \A c \in EdgeCandidates : addEdge(Builder, c.fromRef, c.toRef).edgeMap = edgeMap

\* C25 witness: the pair (c, a) is asked for three times, by the successors
\* of the dataset "c" twice and by the predecessors of the recipe "a", and
\* the map keeps the one edge c -> a, "reads".
C25_Witness ==
    /\ pc = "returned"
    /\ Cardinality(CandidatesOf(IdC, IdA)) = 3
    /\ \E c, d \in CandidatesOf(IdC, IdA) : c.list = "successors" /\ d.list = "predecessors"
    /\ Cardinality({k \in 1..Len(normalized.edges) :
            normalized.edges[k].from = IdC /\ normalized.edges[k].to = IdA}) = 1
    /\ \E k \in 1..Len(normalized.edges) :
          normalized.edges[k] = [from |-> IdC, to |-> IdA, relation |-> "reads"]

TruncatedTemplate == "Flow map truncated (nodes {a}/{b}, edges {c}/{d})."

\* The map the call of normalizeFlowGraph returned, from its inputs and its
\* final locals.
ReturnedMap ==
    IF asRecord(raw) = Undefined THEN emptyFlowMap(projectKey)
    ELSE assembleFlowMap(projectKey, Builder)

\* C26: the warnings of the map returned by truncateFlowMap are the
\* warnings of the input map in their order, followed by one "Flow map
\* truncated" warning when `truncated` is true and by nothing when it is
\* false; the input map is as normalizeFlowGraph returned it.
C26_TruncateKeepsWarnings ==
    HasTruncated =>
        /\ IsPrefix(normalized.warnings, truncated.map.warnings)
        /\ Len(truncated.map.warnings)
              = Len(normalized.warnings) + (IF truncated.truncation.truncated THEN 1 ELSE 0)
        /\ \A k \in 1..Len(truncated.map.warnings) :
              truncated.map.warnings[k].template = TruncatedTemplate
                 <=> (truncated.truncation.truncated /\ k = Len(truncated.map.warnings))
        /\ normalized = ReturnedMap

\* C26 witness: the input map carries a placeholder warning, a node is cut,
\* and the returned warnings are that warning and then the truncation
\* warning.
C26_Witness ==
    /\ HasTruncated
    /\ truncated.truncation.truncated
    /\ Len(normalized.warnings) = 1
    /\ normalized.warnings[1].template = PlaceholderTemplate
    /\ Len(truncated.map.warnings) = 2
    /\ truncated.map.warnings[1] = normalized.warnings[1]
    /\ truncated.map.warnings[2].template = TruncatedTemplate

HasCoerced == coercion # NoCoercion /\ coercion.out # NotReturned

\* The warnings the call appended.
AppendedWarnings ==
    SubSeq(coercion.warnings, Len(coercion.before) + 1, Len(coercion.warnings))

\* The call kept the earlier warnings and, for an array, returned its
\* non-empty strings in order with one warning naming the context per other
\* item.
CoercionOfArrayAccounted ==
    /\ IsPrefix(coercion.before, coercion.warnings)
    /\ IsArray(coercion.value) =>
          /\ coercion.out = Arr(StringList(coercion.value))
          /\ Len(AppendedWarnings) = BadItemCount(coercion.value)
          /\ \A k \in 1..Len(AppendedWarnings) :
                AppendedWarnings[k] = NonStringItemWarning(coercion.context)
          /\ Len(coercion.out.items) + Len(AppendedWarnings) = Len(coercion.value.items)

\* C27 as stated: for every value that is not an array, asStringArray
\* returns the empty list and appends exactly one warning naming the
\* context; for an array it returns the non-empty strings in order and
\* appends one warning per other item; earlier warnings stay as they were.
C27_EveryNonArrayWarned ==
    HasCoerced =>
        /\ CoercionOfArrayAccounted
        /\ ~IsArray(coercion.value) =>
              /\ coercion.out = Arr(<<>>)
              /\ AppendedWarnings = <<NonArrayWarning(coercion.context)>>

\* C27 amended: for undefined, asStringArray returns the empty list and
\* appends nothing; for every other value that is not an array it returns
\* the empty list and appends exactly one warning naming the context; for
\* an array it returns the non-empty strings in order and appends one
\* warning per other item; earlier warnings stay as they were.
C27_DefinedNonArrayWarned ==
    HasCoerced =>
        /\ CoercionOfArrayAccounted
        /\ coercion.value = Undefined =>
              /\ coercion.out = Arr(<<>>)
              /\ AppendedWarnings = <<>>
        /\ (coercion.value # Undefined /\ ~IsArray(coercion.value)) =>
              /\ coercion.out = Arr(<<>>)
              /\ AppendedWarnings = <<NonArrayWarning(coercion.context)>>

\* C27 witness: the call was handed undefined and a warnings array holding
\* two earlier warnings, and returned the empty list with the array as it
\* was.
C27_Witness ==
    /\ HasCoerced
    /\ coercion.value = Undefined
    /\ Len(coercion.before) = 2
    /\ coercion.warnings = coercion.before
    /\ coercion.out = Arr(<<>>)

\* The node's name is empty or is the node's own id.
NameIsEmptyOrOwnId(node) ==
    ~IsNonEmptyString(node.name) \/ node.name = Str(node.id)

\* The step from the end of the enumeration pass to the start of the edge
\* pass: a folder node with a friendly name and an empty or own-id name
\* takes the friendly name, every other node keeps its name; no kind
\* changes.
RenameStepRenamesOnlyUnnamedFolders ==
    pc = "rename" =>
        /\ Len(nodeMap') = Len(nodeMap)
        /\ \A i \in 1..Len(nodeMap) :
              /\ nodeMap'[i].id = nodeMap[i].id
              /\ nodeMap'[i].kind = nodeMap[i].kind
              /\ nodeMap'[i].name
                    = IF /\ nodeMap[i].kind = "folder"
                         /\ FriendlyName(nodeMap[i].id) # Undefined
                         /\ NameIsEmptyOrOwnId(nodeMap[i])
                      THEN FriendlyName(nodeMap[i].id)
                      ELSE nodeMap[i].name

\* The steps after the rename pass: the nodes keep their kinds and names,
\* and the returned nodes carry them.
LaterStepsKeepNames ==
    /\ pc \in {"edges", "assemble"} =>
          \A i \in 1..Len(nodeMap) :
              /\ nodeMap'[i].id = nodeMap[i].id
              /\ nodeMap'[i].kind = nodeMap[i].kind
              /\ nodeMap'[i].name = nodeMap[i].name
    /\ pc = "assemble" =>
          \A i \in 1..Len(nodeMap) :
              /\ NodeWithId(normalized', nodeMap[i].id).kind = nodeMap[i].kind
              /\ NodeWithId(normalized', nodeMap[i].id).name = nodeMap[i].name

\* The names the entries of raw.nodes give their nodes themselves.
EntryGivenNames ==
    UNION {{Str(RawEntries[i].key), RawEntries[i].value.ref, RawEntries[i].value.name,
            RawEntries[i].value.label} : i \in ObjectEntryIndexes}

\* A returned node that carries the friendly name of its id, which no entry
\* gave it, is a folder.
OnlyFoldersNamedFromLookup ==
    pc = "returned" =>
        \A i \in 1..Len(normalized.nodes) :
            LET node == normalized.nodes[i] IN
            (/\ FriendlyName(node.id) # Undefined
             /\ node.name = FriendlyName(node.id)
             /\ node.name \notin EntryGivenNames \cup {Str(node.id)})
                => node.kind = "folder"

\* C28: a node whose final kind is folder, whose id has a non-empty name in
\* options.folderNamesById and whose name after the nodes and enumeration
\* passes is empty or its own id has the friendly name in the output; a
\* folder node with another non-empty name keeps it, and no node of
\* another kind is renamed from the lookup.
C28_FolderRenamedFromLookup ==
    /\ [][RenameStepRenamesOnlyUnnamedFolders /\ LaterStepsKeepNames]_vars
    /\ []OnlyFoldersNamedFromLookup

\* C28 witness: the entry "d" has no type and no name, raw.folders names
\* it and the lookup holds "e" for it: the node entered the rename pass as a
\* folder named "d" and is returned as a folder named "e".
C28_Witness ==
    /\ pc = "returned"
    /\ RawEntries[1].key = IdD
    /\ RawEntries[1].value.type = Undefined
    /\ RawEntries[1].value.name = Undefined
    /\ IdD \in StringsIn(Prop(raw, "folders"))
    /\ IdD \notin StringsIn(Prop(raw, "datasets"))
    /\ FriendlyName(IdD) = Str(<<"e">>)
    /\ NodeWithId(normalized, IdD).kind = "folder"
    /\ NodeWithId(normalized, IdD).name = Str(<<"e">>)

\* The ordered pairs the references of the final adjacency lists resolve to.
ResolvedPairs == {<<c.from, c.to>> : c \in EdgeCandidates}

\* C29: the returned map has as many edges as there are distinct ordered
\* pairs (from, to) among the resolved references of the final adjacency
\* lists, also for ids that contain "::".
C29_OneEdgePerResolvedPair ==
    (pc = "returned" /\ IsObject(raw)) =>
        Len(normalized.edges) = Cardinality(ResolvedPairs)

\* Neither cap is below the count it limits.
CapsDoNotBind ==
    /\ maxNodes = Undefined \/ maxNodes.n >= Len(normalized.nodes)
    /\ maxEdges = Undefined \/ maxEdges.n >= Len(normalized.edges)

\* C30: when maxNodes is undefined or at least the node count and maxEdges
\* is undefined or at least the edge count, truncateFlowMap returns the
\* nodes, edges, roots, leaves, stats and warnings of the map
\* normalizeFlowGraph returned, and reports truncated = false with equal
\* counts before and after.
C30_UnboundCapsChangeNothing ==
    (HasTruncated /\ CapsDoNotBind) =>
        /\ truncated.map.nodes = normalized.nodes
        /\ truncated.map.edges = normalized.edges
        /\ truncated.map.roots = normalized.roots
        /\ truncated.map.leaves = normalized.leaves
        /\ truncated.map.stats = normalized.stats
        /\ truncated.map.warnings = normalized.warnings
        /\ truncated.truncation.truncated = FALSE
        /\ truncated.truncation.nodeCountAfter = truncated.truncation.nodeCountBefore
        /\ truncated.truncation.nodeCountBefore = Len(normalized.nodes)
        /\ truncated.truncation.edgeCountAfter = truncated.truncation.edgeCountBefore
        /\ truncated.truncation.edgeCountBefore = Len(normalized.edges)

\* C30 witness: both caps are given and equal the counts: a map of two
\* nodes with edges and a warning is returned under maxNodes = 2 and
\* maxEdges = its edge count.
C30_Witness ==
    /\ HasTruncated
    /\ maxNodes = Cap(2)
    /\ Len(normalized.nodes) = 2
    /\ maxEdges # Undefined
    /\ Len(normalized.edges) >= 1
    /\ maxEdges.n = Len(normalized.edges)
    /\ normalized.roots # normalized.leaves
    /\ truncated.map.edges = normalized.edges

====
